---- MODULE Spec2Model ----
(***************************************************************************)
(* Job-hunt tracker: the inbound-message ingestion pipeline.               *)
(*                                                                         *)
(*   - the scan merge of App.handleScanMessages (src/unnamed/part_012)     *)
(*   - the App state of accounts and messages and the scan life cycle      *)
(*   - fetchGmailMessages / parseGmailMessage (src/services/gmailService)  *)
(*   - extractJobDetailsFromEmail / analyzeEmailWithGemini (same file)     *)
(*                                                                         *)
(* Each component has its own specification over the shared variables;    *)
(* the variables of the other components keep their initial value.        *)
(***************************************************************************)
EXTENDS Integers, Sequences, FiniteSets, TLC

VARIABLES
    \* ---- App state (part_012:21-30)
    messages,          \* useState<InboundMessage[]>
    accounts,          \* useState<ConnectedAccount[]>
    isScanning,        \* useState(false)
    isEmailScanned,    \* useState(false)
    \* ---- one handleScanMessages invocation (part_012:134-183)
    \* (its locals are cleared when the invocation ends)
    scanPc,            \* "idle" | "sync" | "fetch" | "timer"
    updatedAccounts,   \* the scan's snapshot of the accounts after the sync
    scanIdx,           \* position of the for loop over updatedAccounts
    newRealMessages,   \* the scan's accumulated fetch results
    scanSnapshot,      \* the accounts the invocation closed over
    nextAccountId,     \* source of fresh account ids (Date.now() in the code)
    \* ---- the merge as a pure function
    mA, mB, mOnce, mTwice, mPc,
    \* ---- one fetchGmailMessages call (gmailService.ts:7-104)
    fPc,               \* "start" | "listing" | "details" | "done"
    fArgs,             \* [accessToken, accountId, limit, timeWindow]
    fRequests,         \* the network requests issued so far, in order
    fListResp,         \* history: the listing response
    fListing,          \* listData.messages: the candidate ids
    fServed,           \* history: what the provider answered for each item
    fSlots,            \* the fetchDetails promises: Pending or their value
    fResult,           \* how the call settled
    \* ---- one parseGmailMessage call (gmailService.ts:132-193)
    pData, pOut,
    \* ---- one call of the extraction engine (gmailService.ts:407-543)
    xPc,               \* "off" | "start" | "calling" | "done"
    xOp,               \* "extract" | "analyze"
    xArgs,             \* [emailText, subject]
    xApiKey,           \* process.env.API_KEY
    xCalls,            \* the generateContent calls issued so far
    xPath,             \* history: the paths the invocation took
    xOutcome,          \* history: how the model call settled
    xResult,           \* how the call settled
    \* ---- the App component's other state (part_012:21-30) and the inbox
    \* view's creation flow (InboundEmails.tsx)
    applications,      \* JobApplication[]
    isMockMode,        \* data mode
    store,             \* localStorage keys jh_real_applications/messages/accounts
    now,               \* Date.now() as the number of ids generated so far
    edits,             \* number of status changes made so far
    ops,               \* number of mode switches, links, deletions and
                       \* creation clicks made so far
    trashing,          \* ids whose trashGmailMessage call is in flight
    selectedMessageId, \* InboundEmails: the message in the viewer
    isCreateModalOpen, \* InboundEmails: the create form is shown
    parsingMessage,    \* the message whose extraction is in flight, or Absent
    draftApplication,  \* InboundEmails: the extracted draft, or Absent
    formData,          \* CreateApplicationModal: the form fields
    \* ---- the message viewer's reply editor (MessageViewer.tsx:29-31) and
    \* the reply attempts made from it
    isReplyOpen,       \* useState(false)
    replyBody,         \* useState('')
    isSendingReply,    \* useState(false)
    sendInFlight,      \* the sendGmailReply calls that have not settled
    sendCalls,         \* history: the sendGmailReply calls issued, in order
    replyAsks,         \* history: the handleSendReply invocations, in order
    replyReturned,     \* history: what handleReplyMessage returned, in order
    removedInScan,     \* history: the ids of the accounts removed since the
                       \* scan in flight took its snapshot
    \* ---- a second invocation of handleScanMessages that runs while the
    \* first is in flight
    scanB,             \* its closure: position, accounts captured, synced
                       \* accounts, loop index, newRealMessages
    firstMerged,       \* history: which invocation merged while the other
                       \* was in flight, and the ids it had fetched
    \* ---- ApplicationManager's job-description analysis (part_003:17, 60-77)
    isAnalyzing,       \* useState(false)
    jdInFlight,        \* the selectedApp the handleAnalyzeJD call in flight
                       \* captured, or NoAnalysis
    \* ---- a mode switch taken render by render (part_012:33-60)
    effPc,             \* "idle", "effects" (the render after setIsMockMode is
                       \* committed), "render" (the load effect's updates
                       \* are queued)
    pendingLoad        \* the values the load effect passed to the setters

appVars   == <<messages, accounts, isScanning, isEmailScanned, scanPc,
               updatedAccounts, scanIdx, newRealMessages, scanSnapshot,
               nextAccountId>>
mergeVars == <<mA, mB, mOnce, mTwice, mPc>>
fetchVars == <<fPc, fArgs, fRequests, fListResp, fListing, fServed, fSlots, fResult>>
parseVars == <<pData, pOut>>
aiVars    == <<xPc, xOp, xArgs, xApiKey, xCalls, xPath, xOutcome, xResult>>
deskRest  == <<isMockMode, now, edits, ops, trashing, selectedMessageId,
               isCreateModalOpen, parsingMessage, draftApplication, formData>>
deskVars  == <<applications, store, deskRest>>
replyVars == <<isReplyOpen, replyBody, isSendingReply, sendInFlight, sendCalls,
               replyAsks, replyReturned>>
histVars  == <<removedInScan>>
overlapVars == <<scanB, firstMerged>>
jdVars    == <<isAnalyzing, jdInFlight>>
toggleVars == <<effPc, pendingLoad>>
restViewVars == <<histVars, overlapVars, jdVars, toggleVars>>
viewVars  == <<replyVars, histVars, overlapVars, jdVars, toggleVars>>
vars      == <<appVars, mergeVars, fetchVars, parseVars, aiVars, deskVars, viewVars>>
notFetchVars == <<appVars, mergeVars, parseVars, aiVars, deskVars, viewVars>>

NoMerge == [by |-> "none", ids |-> <<>>]
NoAnalysis == [js |-> "undefined"]
NoLoad == [js |-> "undefined"]
\* the closure of an invocation of handleScanMessages that is not running
IdleScan == [pc |-> "idle", snapshot |-> <<>>, updated |-> <<>>, idx |-> 0,
             fresh |-> <<>>]

(***************************************************************************)
(* Bounds of the model.                                                    *)
(***************************************************************************)
MaxExisting == 2      \* longest existing collection drawn for the pure merge
MaxFetched  == 3      \* longest fetched batch drawn for the pure merge
MaxListing  == 3      \* most candidate ids a listing returns
MaxAccounts == 3      \* most accounts connected at a time
MaxConnects == 2      \* most accounts connected over a run
MaxStored   == 1      \* largest stored collection a step-by-step scan starts from
MaxCreates  == 1      \* most applications created over a run
MaxEdits    == 1      \* most status changes made over a run
MaxOps      == 3      \* most mode switches, links, deletions and creation
                      \* clicks made over a run
MaxAsks     == 2      \* most reply attempts made over a run
MaxNotes    == 1      \* most notes added to an application

(***************************************************************************)
(* Messages.  receivedAt is the ISO-8601 string the code stores; the sort  *)
(* compares new Date(receivedAt).getTime().                                *)
(***************************************************************************)
MessageIds   == {"a", "b", "c"}
ReceivedAts  == {"2024-01-01T09:00:00.000Z", "2024-01-02T09:00:00.000Z"}
NoLink       == "unlinked"

\* new Date(iso).getTime(), in days since 2023-12-31 for the instants used
DateGetTime(iso) ==
    CASE iso = "2024-01-01T09:00:00.000Z" -> 1
      [] iso = "2024-01-02T09:00:00.000Z" -> 2
      [] iso = "2024-01-03T09:00:00.000Z" -> 3
      [] OTHER -> 0

Msg(id, acc, at, snip, link) ==
    [id |-> id, accountId |-> acc, receivedAt |-> at, snippet |-> snip,
     linkedApplicationId |-> link]

Ids(s) == {s[i].id : i \in DOMAIN s}

(***************************************************************************)
(* Array.prototype.sort with the comparator                               *)
(*   (a, b) => getTime(b.receivedAt) - getTime(a.receivedAt)               *)
(* The sort is stable (ECMAScript 2019): entries with equal receivedAt     *)
(* keep their relative order.                                              *)
(***************************************************************************)
\* the comparator: negative when a goes first
CompareReceivedAtDesc(a, b) == DateGetTime(b.receivedAt) - DateGetTime(a.receivedAt)

RECURSIVE InsertStable(_, _)
InsertStable(sorted, m) ==
    IF sorted = <<>> THEN <<m>>
    ELSE IF CompareReceivedAtDesc(Head(sorted), m) <= 0
         THEN <<Head(sorted)>> \o InsertStable(Tail(sorted), m)
         ELSE <<m>> \o sorted

RECURSIVE SortFrom(_, _)
SortFrom(done, rest) ==
    IF rest = <<>> THEN done
    ELSE SortFrom(InsertStable(done, Head(rest)), Tail(rest))

\* a sort dropped from the merge
SortNone(s) == s

SortByReceivedAtDesc(s) == SortFrom(<<>>, s)

(***************************************************************************)
(* The setMessages updater of handleScanMessages (part_012:159-167).       *)
(***************************************************************************)
UniqueNewReal(prev, newReal) ==
    SelectSeq(newReal, LAMBDA m : m.id \notin Ids(prev))

\* a merge that forgets the dedup filter
MergeNoDedup(prev, newReal) == SortByReceivedAtDesc(newReal \o prev)

Merge(prev, newReal) ==
    SortByReceivedAtDesc(UniqueNewReal(prev, newReal) \o prev)

(***************************************************************************)
(* The merge as a pure function: merge once, then again with the same      *)
(* fetch result.                                                           *)
(***************************************************************************)
\* The existing entries carry one snippet and the fetched ones another, so
\* an entry of the result tells which side it came from; the merge reads
\* only id and receivedAt.
ExistingUniverse ==
    [id : MessageIds, accountId : {"acc_1"}, receivedAt : ReceivedAts,
     snippet : {"existing text"}, linkedApplicationId : {NoLink}]
FetchedUniverse ==
    [id : MessageIds, accountId : {"acc_1"}, receivedAt : ReceivedAts,
     snippet : {"fetched text"}, linkedApplicationId : {NoLink}]

RECURSIVE SeqsUpTo(_, _)
SeqsUpTo(S, n) ==
    IF n = 0 THEN {<<>>}
    ELSE LET shorter == SeqsUpTo(S, n - 1)
         IN  shorter \cup {Append(q, x) : q \in shorter, x \in S}

MergeInit ==
    /\ mA \in SeqsUpTo(ExistingUniverse, MaxExisting)
    /\ mB \in SeqsUpTo(FetchedUniverse, MaxFetched)
    /\ mOnce = <<>> /\ mTwice = <<>> /\ mPc = "start"

MergeOnce ==
    /\ mPc = "start"
    /\ mOnce' = Merge(mA, mB)
    /\ mPc' = "once"
    /\ UNCHANGED <<mA, mB, mTwice>>
    /\ UNCHANGED <<appVars, fetchVars, parseVars, viewVars, aiVars, deskVars>>

MergeAgain ==
    /\ mPc = "once"
    /\ mTwice' = Merge(mOnce, mB)
    /\ mPc' = "twice"
    /\ UNCHANGED <<mA, mB, mOnce>>
    /\ UNCHANGED <<appVars, fetchVars, parseVars, viewVars, aiVars, deskVars>>

(***************************************************************************)
(* JavaScript values and string operations used by the service.            *)
(***************************************************************************)
\* Every value that may be missing carries a js tag, so that a test for
\* null or undefined never compares values of different shapes.
Absent   == [js |-> "undefined"]        \* a missing property / undefined
JsonNull == [js |-> "null"]             \* the JSON value null
Str(s)   == [js |-> "string", v |-> s]
Arr(q)   == [js |-> "array", v |-> q]
Nullish(x) == x.js \in {"undefined", "null"}

\* String.prototype.startsWith
StartsWith(s, prefix) ==
    Len(s) >= Len(prefix) /\ SubSeq(s, 1, Len(prefix)) = prefix

\* String.prototype.includes
Includes(s, sub) ==
    \E i \in 1..(Len(s) - Len(sub) + 1) : SubSeq(s, i, i + Len(sub) - 1) = sub

UpperCase == "ABCDEFGHIJKLMNOPQRSTUVWXYZ"
LowerCase == "abcdefghijklmnopqrstuvwxyz"

LowerChar(c) ==
    IF \E i \in 1..26 : SubSeq(UpperCase, i, i) = c
    THEN LET i == CHOOSE i \in 1..26 : SubSeq(UpperCase, i, i) = c
         IN  SubSeq(LowerCase, i, i)
    ELSE c

\* String.prototype.toLowerCase
RECURSIVE ToLowerCase(_)
ToLowerCase(s) ==
    IF Len(s) = 0 THEN ""
    ELSE LowerChar(SubSeq(s, 1, 1)) \o ToLowerCase(SubSeq(s, 2, Len(s)))

\* s.replace(/-/g, '+').replace(/_/g, '/')
RECURSIVE Base64UrlToBase64(_)
Base64UrlToBase64(s) ==
    IF Len(s) = 0 THEN ""
    ELSE LET c == SubSeq(s, 1, 1)
             d == IF c = "-" THEN "+" ELSE IF c = "_" THEN "/" ELSE c
         IN  d \o Base64UrlToBase64(SubSeq(s, 2, Len(s)))

(***************************************************************************)
(* parseGmailMessage (gmailService.ts:132-193).                            *)
(*                                                                         *)
(* A raw payload is Absent, JsonNull or an object                          *)
(*   [js, id, payload, snippet, internalDate, labelIds]                    *)
(* whose payload is Absent or [js, headers, parts]; headers is Absent or   *)
(* an array of [name, value]; parts is Absent or an array of               *)
(* [mimeType, body, parts] with body Absent or [js, data]; internalDate    *)
(* and a header name are Absent or a string, labelIds Absent or an array.  *)
(* An evaluation either yields a value or raises.                          *)
(***************************************************************************)
Value(v)  == [kind |-> "value", value |-> v]
Raise(e)  == [kind |-> "raise", error |-> e]
Null      == [kind |-> "null"]

\* String.prototype.trim, over the blank, the tab and the line feed
WhiteSpace == {" ", "\t", "\n"}
RECURSIVE TrimStart(_)
TrimStart(s) ==
    IF Len(s) > 0 /\ SubSeq(s, 1, 1) \in WhiteSpace
    THEN TrimStart(SubSeq(s, 2, Len(s))) ELSE s

RECURSIVE TrimEnd(_)
TrimEnd(s) ==
    IF Len(s) > 0 /\ SubSeq(s, Len(s), Len(s)) \in WhiteSpace
    THEN TrimEnd(SubSeq(s, 1, Len(s) - 1)) ELSE s

Trim(s) == TrimEnd(TrimStart(s))

\* s.replace(/^"|"$/g, '')
StripQuotes(s) ==
    LET a == IF Len(s) > 0 /\ SubSeq(s, 1, 1) = "\"" THEN SubSeq(s, 2, Len(s)) ELSE s
    IN  IF Len(a) > 0 /\ SubSeq(a, Len(a), Len(a)) = "\""
        THEN SubSeq(a, 1, Len(a) - 1) ELSE a

\* from.match(/(.*)<(.*)>/): both groups are greedy, so the "<" is the last
\* one that still has a ">" after it and the ">" is the last one of all.
CharAt(s, i) == SubSeq(s, i, i)
SenderMatches(from) ==
    \E i \in 1..Len(from) : CharAt(from, i) = "<" /\
        \E j \in (i + 1)..Len(from) : CharAt(from, j) = ">"
SenderOpen(from) ==
    CHOOSE i \in 1..Len(from) :
        /\ CharAt(from, i) = "<"
        /\ \E j \in (i + 1)..Len(from) : CharAt(from, j) = ">"
        /\ \A k \in (i + 1)..Len(from) :
              CharAt(from, k) = "<" => ~ \E j \in (k + 1)..Len(from) : CharAt(from, j) = ">"
SenderClose(from) ==
    CHOOSE j \in 1..Len(from) :
        CharAt(from, j) = ">" /\ \A k \in (j + 1)..Len(from) : CharAt(from, k) # ">"

\* a name that keeps the quotes around it
SenderNameKeepQuotes(from) ==
    IF SenderMatches(from)
    THEN Trim(SubSeq(from, 1, SenderOpen(from) - 1))
    ELSE from

SenderName(from) ==
    IF SenderMatches(from)
    THEN StripQuotes(Trim(SubSeq(from, 1, SenderOpen(from) - 1)))
    ELSE from
SenderEmail(from) ==
    IF SenderMatches(from)
    THEN Trim(SubSeq(from, SenderOpen(from) + 1, SenderClose(from) - 1))
    ELSE from

\* headers.find(h => h.name.toLowerCase() === name.toLowerCase())?.value || ''
\* An entry without a name raises when the search reaches it.
RECURSIVE GetHeader(_, _)
GetHeader(headers, name) ==
    IF headers = <<>> THEN Value("")
    ELSE LET h == Head(headers) IN
         IF Nullish(h.name) THEN Raise("TypeError")
         ELSE IF ToLowerCase(h.name.v) = ToLowerCase(name)
              THEN Value(h.value)
              ELSE GetHeader(Tail(headers), name)

\* findPart: depth-first, pre-order search of the part tree
RECURSIVE FindPart(_, _)
FindPart(parts, mimeType) ==
    IF Nullish(parts) THEN Null
    ELSE IF parts.v = <<>> THEN Null
    ELSE LET part == Head(parts.v) IN
         IF part.mimeType = mimeType THEN Value(part)
         ELSE LET found == IF Nullish(part.parts) THEN Null
                           ELSE FindPart(part.parts, mimeType)
              IN  IF found.kind # "null" THEN found
                  ELSE FindPart(Arr(Tail(parts.v)), mimeType)

\* atob on the standard alphabet, for the encodings the model uses; any
\* other text holds a character outside the alphabet and raises.
Atob(b64) ==
    CASE b64 = "PGI+SGk8L2I+" -> Value("<b>Hi</b>")
      [] b64 = "SGkgdGhlcmU=" -> Value("Hi there")
      [] b64 = "Pz8/Pg=="     -> Value("???>")
      [] OTHER                -> Raise("InvalidCharacterError")

\* new Date(parseInt(internalDate)).toISOString()
InternalDateToISO(internalDate) ==
    CASE internalDate = "1704099600000" -> Value("2024-01-01T09:00:00.000Z")
      [] internalDate = "1704186000000" -> Value("2024-01-02T09:00:00.000Z")
      [] internalDate = "1704272400000" -> Value("2024-01-03T09:00:00.000Z")
      [] OTHER                          -> Raise("RangeError")

\* the try block, lines 134-188
ParseTry(data, accountId) ==
    IF Nullish(data) THEN Raise("TypeError")
    ELSE IF Nullish(data.payload) THEN Raise("TypeError")
    ELSE IF Nullish(data.payload.headers) THEN Raise("TypeError")
    ELSE
    LET headers  == data.payload.headers.v
        subject  == GetHeader(headers, "Subject")
        from     == GetHeader(headers, "From")
    IN
    IF subject.kind = "raise" THEN subject
    ELSE IF from.kind = "raise" THEN from
    ELSE
    LET senderName  == SenderName(from.value)
        senderEmail == SenderEmail(from.value)
        htmlPart == FindPart(data.payload.parts, "text/html")
        textPart == FindPart(data.payload.parts, "text/plain")
        bodyPart == IF htmlPart.kind # "null" THEN htmlPart ELSE textPart
        hasData  == /\ bodyPart.kind # "null"
                    /\ ~ Nullish(bodyPart.value.body)
                    /\ ~ Nullish(bodyPart.value.body.data)
                    /\ bodyPart.value.body.data.v # ""
        body     == IF hasData
                    THEN Atob(Base64UrlToBase64(bodyPart.value.body.data.v))
                    ELSE Value(data.snippet)
        received == IF Nullish(data.internalDate) THEN Raise("RangeError")
                    ELSE InternalDateToISO(data.internalDate.v)
    IN
    IF body.kind = "raise" THEN body
    ELSE IF received.kind = "raise" THEN received
    ELSE IF Nullish(data.labelIds) THEN Raise("TypeError")
    ELSE Value([id          |-> data.id,
                accountId   |-> accountId,
                provider    |-> "Gmail",
                senderName  |-> IF senderName = "" THEN "Unknown" ELSE senderName,
                senderEmail |-> senderEmail,
                subject     |-> IF subject.value = "" THEN "(No Subject)" ELSE subject.value,
                snippet     |-> data.snippet,
                fullBody    |-> body.value,
                rawContent  |-> [json |-> data.payload],
                receivedAt  |-> received.value,
                link        |-> "https://mail.google.com/mail/u/0/#inbox/" \o data.id,
                isRead      |-> "UNREAD" \notin data.labelIds.v,
                linkedApplicationId |-> NoLink])

\* the catch block, lines 189-192: the log line reads data.id
ParseCatch(data) ==
    IF Nullish(data) THEN Raise("TypeError") ELSE Null

ParseGmailMessage(data, accountId) ==
    LET r == ParseTry(data, accountId)
    IN  IF r.kind = "raise" THEN ParseCatch(data) ELSE r

(***************************************************************************)
(* fetchGmailMessages (gmailService.ts:7-104).                             *)
(***************************************************************************)
Pending  == [kind |-> "pending"]
NotJson  == [js |-> "not json"]         \* a body response.json() rejects on
Obj      == "object"

Resolved(v) == [kind |-> "resolved", value |-> v]
Rejected(e) == [kind |-> "rejected", error |-> e]
Error(m)    == [name |-> "Error", message |-> m]
TypeError   == [name |-> "TypeError", message |-> "Cannot read properties of null"]
SyntaxError == [name |-> "SyntaxError", message |-> "Unexpected token in JSON"]
NetworkError == [name |-> "TypeError", message |-> "Failed to fetch"]

\* a guard that takes only the token "mock_token" itself for synthetic
IsMockTokenExact(accessToken) == accessToken = "mock_token"

\* line 13
IsMockToken(accessToken) == StartsWith(accessToken, "mock_")

\* lines 19-21
NewerThan(timeWindow) ==
    IF timeWindow = "3m" THEN "90d"
    ELSE IF timeWindow = "7d" THEN "7d"
    ELSE "30d"

ListRequest(args) ==
    [type |-> "list", newerThan |-> NewerThan(args.timeWindow),
     maxResults |-> args.limit, bearer |-> args.accessToken]
DetailRequest(args, id) ==
    [type |-> "detail", id |-> id, bearer |-> args.accessToken]

\* errorData.error?.message || JSON.stringify(errorData), line 50;
\* a body is [error, text] with error Absent or [message] and text its JSON
ProviderMessage(body) ==
    IF ~ Nullish(body.error) /\ body.error.message # ""
    THEN body.error.message
    ELSE body.text

MsgPermission == "Gmail permission not granted. Please re-connect your Google account."
MsgNotEnabled == "Gmail API is not enabled for this project."
MsgExpired    == "Access token expired. Please re-connect."

\* the non-OK branch of the listing call, lines 41-66: what is thrown
ListingError(resp) ==
    IF resp.body.js = "not json"
    THEN Error("Gmail API Error: " \o ToString(resp.status) \o " " \o resp.statusText)
    ELSE IF resp.body.js = "null" THEN TypeError
    ELSE LET message == ProviderMessage(resp.body) IN
         IF resp.status = 403 /\ (Includes(message, "Insufficient Permission")
                                  \/ Includes(message, "scope"))
         THEN Error(MsgPermission)
         ELSE IF resp.status = 403 /\ (Includes(message, "not enabled")
                                       \/ Includes(message, "project"))
         THEN Error(MsgNotEnabled)
         ELSE IF resp.status = 401 THEN Error(MsgExpired)
         ELSE Error("Failed to list messages: " \o message)

\* the body of fetchDetails' try block, lines 81-90; an answer is
\* [net |-> "throws"] or [net |-> "response", ok, data]
FetchDetailsTry(answer, accountId) ==
    IF answer.net = "throws" THEN Raise("TypeError")
    ELSE IF ~ answer.ok THEN Null
    ELSE IF answer.data.js = "not json" THEN Raise("SyntaxError")
    ELSE ParseGmailMessage(answer.data, accountId)

\* a fetchDetails without its try/catch
FetchDetailsNoCatch(answer, accountId) == FetchDetailsTry(answer, accountId)

\* fetchDetails, lines 79-95: any failure is logged and becomes null
FetchDetails(answer, accountId) ==
    LET r == FetchDetailsTry(answer, accountId)
    IN  IF r.kind = "raise" THEN Null ELSE r

\* results.filter(m => m !== null), line 98
RECURSIVE NonNull(_)
NonNull(slots) ==
    IF slots = <<>> THEN <<>>
    ELSE IF Head(slots).kind = "null" THEN NonNull(Tail(slots))
         ELSE <<Head(slots).value>> \o NonNull(Tail(slots))

(***************************************************************************)
(* What the provider may answer.                                           *)
(***************************************************************************)
IdPool == <<"a", "b", "c", "d", "e">>

InternalDateOf(id) ==
    CASE id = "a" -> "1704099600000"
      [] id = "b" -> "1704186000000"
      [] OTHER    -> "1704272400000"

GoodData(id) ==
    [js |-> Obj, id |-> id,
     payload |-> [js |-> Obj,
                  headers |-> Arr(<< [name |-> Str("From"), value |-> "Jane Doe <jane@x.com>"],
                                     [name |-> Str("Subject"), value |-> "Interview at Acme Corp"] >>),
                  parts |-> Arr(<< [mimeType |-> "text/plain",
                                    body |-> [js |-> Obj, data |-> Str("SGkgdGhlcmU=")],
                                    parts |-> Absent] >>)],
     snippet |-> "fetched text",
     internalDate |-> Str(InternalDateOf(id)),
     labelIds |-> Arr({"INBOX", "UNREAD"})]

NoPayloadData(id) == [GoodData(id) EXCEPT !.payload = Absent]

NoAnswer == [net |-> "none"]
DetailAnswers(id) ==
    { [net |-> "throws"],
      [net |-> "response", ok |-> FALSE, data |-> Absent],
      [net |-> "response", ok |-> TRUE,  data |-> NotJson],
      [net |-> "response", ok |-> TRUE,  data |-> JsonNull],
      [net |-> "response", ok |-> TRUE,  data |-> NoPayloadData(id)],
      [net |-> "response", ok |-> TRUE,  data |-> GoodData(id)] }

\* an item fails when its request throws, its response is non-OK or its
\* payload does not normalize
GoodAnswer(id) == [net |-> "response", ok |-> TRUE, data |-> GoodData(id)]

StatusText(status) ==
    CASE status = 401 -> "Unauthorized"
      [] status = 403 -> "Forbidden"
      [] status = 404 -> "Not Found"
      [] OTHER        -> "Internal Server Error"

ProviderMessages ==
    { "Invalid Credentials",
      "Request had insufficient authentication scopes.",
      "Insufficient Permission",
      "Gmail API has not been used in project 42 before or it is disabled.",
      "Access Not Configured. Gmail API is not enabled.",
      "Gmail API is not enabled for the requested scope.",
      "Rate Limit Exceeded",
      "Quota exceeded for quota metric 'Queries' for consumer 'project_number:42'.",
      "Backend Error" }

ErrorBodies ==
    {NotJson, JsonNull, [js |-> Obj, error |-> Absent, text |-> "{}"]}
    \cup {[js |-> Obj, error |-> [js |-> Obj, message |-> m], text |-> "{\"error\":{}}"] :
              m \in ProviderMessages}

ErrorResponses ==
    {[ok |-> FALSE, status |-> st, statusText |-> StatusText(st), body |-> b] :
        st \in {401, 403, 404, 500}, b \in ErrorBodies}

\* sequences without repetition over a set, up to a length
RECURSIVE DistinctSeqs(_, _)
DistinctSeqs(S, n) ==
    IF n = 0 THEN {<<>>}
    ELSE LET shorter == DistinctSeqs(S, n - 1)
         IN  shorter \cup
             UNION {{Append(q, x) : x \in S \ {q[i] : i \in DOMAIN q}} : q \in shorter}

\* the ids of a set of pool positions, in pool order and in reverse pool order
RECURSIVE AscendingIds(_)
AscendingIds(S) ==
    IF S = {} THEN <<>>
    ELSE LET m == CHOOSE x \in S : \A y \in S : x <= y
         IN  <<IdPool[m]>> \o AscendingIds(S \ {m})
RECURSIVE DescendingIds(_)
DescendingIds(S) ==
    IF S = {} THEN <<>>
    ELSE LET m == CHOOSE x \in S : \A y \in S : x >= y
         IN  <<IdPool[m]>> \o DescendingIds(S \ {m})
\* the listings the provider may return: up to n distinct ids
Listings(n) ==
    UNION {{AscendingIds(S), DescendingIds(S)} :
              S \in {T \in SUBSET (1..MaxListing) : Cardinality(T) <= n}}

Min(a, b) == IF a < b THEN a ELSE b

\* a 200 listing: unparseable, without messages, or with up to maxResults ids
OkResponses(maxResults) ==
    {[ok |-> TRUE, status |-> 200, statusText |-> "OK", body |-> b] :
        b \in {NotJson, [js |-> Obj, messages |-> Absent]}
              \cup {[js |-> Obj, messages |-> Arr(q)] :
                       q \in Listings(Min(maxResults, MaxListing))}}

FetchTokens   == {"mock_token_1", "mockup-ya29.a0", "ya29.a0AfB"}
FetchAccounts == {"acc_1", "acc_gmail_1700000000000"}
FetchLimits   == {1, MaxListing}
TimeWindows   == {"7d", "30d", "3m"}

(***************************************************************************)
(* One call of fetchGmailMessages, step by step.                           *)
(***************************************************************************)
FetchStart ==
    /\ fPc = "start"
    /\ IF IsMockToken(fArgs.accessToken)
       THEN /\ fPc' = "done"
            /\ fResult' = Resolved(<<>>)
            /\ UNCHANGED fRequests
       ELSE /\ fPc' = "listing"
            /\ fRequests' = Append(fRequests, ListRequest(fArgs))
            /\ UNCHANGED fResult
    /\ UNCHANGED <<fArgs, fListResp, fListing, fServed, fSlots>>
    /\ UNCHANGED notFetchVars

\* the listing request itself fails (no response): fetch rejects, line 36
FetchListingThrows ==
    /\ fPc = "listing"
    /\ fPc' = "done"
    /\ fResult' = Rejected(NetworkError)
    /\ UNCHANGED <<fArgs, fRequests, fListResp, fListing, fServed, fSlots>>
    /\ UNCHANGED notFetchVars

\* a non-OK listing response, lines 41-66
FetchListingFails ==
    /\ fPc = "listing"
    /\ \E resp \in ErrorResponses :
          /\ fPc' = "done"
          /\ fResult' = Rejected(ListingError(resp))
          /\ fListResp' = resp
    /\ UNCHANGED <<fArgs, fRequests, fListing, fServed, fSlots>>
    /\ UNCHANGED notFetchVars

\* a 200 listing response, lines 68-97: the listing fails to parse, holds
\* no messages, or starts one fetchDetails per candidate, all at once
FetchListingOk ==
    /\ fPc = "listing"
    /\ \E resp \in OkResponses(fArgs.limit) :
          /\ fListResp' = resp
          /\ IF resp.body.js = "not json"
             THEN /\ fPc' = "done"
                  /\ fResult' = Rejected(SyntaxError)
                  /\ UNCHANGED <<fRequests, fListing, fServed, fSlots>>
             ELSE IF Nullish(resp.body.messages) \/ resp.body.messages = Arr(<<>>)
             THEN /\ fPc' = "done"
                  /\ fResult' = Resolved(<<>>)
                  /\ UNCHANGED <<fRequests, fListing, fServed, fSlots>>
             ELSE LET ids == resp.body.messages.v IN
                  /\ fPc' = "details"
                  /\ fListing' = ids
                  /\ fRequests' = fRequests \o
                        [i \in 1..Len(ids) |-> DetailRequest(fArgs, ids[i])]
                  /\ fSlots'  = [i \in 1..Len(ids) |-> Pending]
                  /\ fServed' = [i \in 1..Len(ids) |-> NoAnswer]
                  /\ UNCHANGED fResult
    /\ UNCHANGED fArgs
    /\ UNCHANGED notFetchVars

\* one fetchDetails settles, in any order among its siblings
FetchDetailSettles ==
    /\ fPc = "details"
    /\ \E i \in DOMAIN fSlots :
          /\ fSlots[i].kind = "pending"
          /\ \E answer \in DetailAnswers(fListing[i]) :
                /\ fServed' = [fServed EXCEPT ![i] = answer]
                /\ fSlots'  = [fSlots EXCEPT ![i] = FetchDetails(answer, fArgs.accountId)]
    /\ UNCHANGED <<fPc, fArgs, fRequests, fListResp, fListing, fResult>>
    /\ UNCHANGED notFetchVars

\* Promise.all, lines 97-103: rejects with the first rejection, else
\* resolves once every fetchDetails has settled; the catch rethrows
FetchJoin ==
    /\ fPc = "details"
    /\ IF \E i \in DOMAIN fSlots : fSlots[i].kind = "raise"
       THEN fResult' = Rejected([name |-> "rethrown", message |-> "fetchDetails rejected"])
       ELSE /\ \A i \in DOMAIN fSlots : fSlots[i].kind # "pending"
            /\ fResult' = Resolved(NonNull(fSlots))
    /\ fPc' = "done"
    /\ UNCHANGED <<fArgs, fRequests, fListResp, fListing, fServed, fSlots>>
    /\ UNCHANGED notFetchVars

NoResponse == [ok |-> TRUE, status |-> 0, statusText |-> "", body |-> Absent]

FetchIdle ==
    /\ fPc = "off" /\ fArgs = Absent /\ fRequests = <<>> /\ fListResp = NoResponse
    /\ fListing = <<>> /\ fServed = <<>> /\ fSlots = <<>> /\ fResult = Pending

FetchInit ==
    /\ fPc = "start"
    /\ fArgs \in [accessToken : FetchTokens, accountId : FetchAccounts,
                  limit : FetchLimits, timeWindow : TimeWindows]
    /\ fRequests = <<>> /\ fListResp = NoResponse
    /\ fListing = <<>> /\ fServed = <<>> /\ fSlots = <<>> /\ fResult = Pending

(***************************************************************************)
(* One call of parseGmailMessage on a drawn payload.                       *)
(***************************************************************************)
HeaderSamples ==
    { Absent,
      Arr(<<>>),
      Arr(<< [name |-> Str("From"), value |-> "jane@x.com"] >>),
      Arr(<< [name |-> Str("FROM"), value |-> "\"Jane Doe\" <jane@x.com>"],
             [name |-> Str("subject"), value |-> "Interview at Acme Corp"] >>),
      Arr(<< [name |-> Str("From"), value |-> "<jobs@acme.dev>"] >>),
      Arr(<< [name |-> Str("Subject"), value |-> "Your application"],
             [name |-> Str("From"), value |-> "  Acme Recruiting   <jobs@acme.dev>"] >>),
      Arr(<< [name |-> Absent, value |-> "x"],
             [name |-> Str("From"), value |-> "Jane Doe <jane@x.com>"] >>) }

Part(mime, data) ==
    [mimeType |-> mime, body |-> [js |-> Obj, data |-> Str(data)], parts |-> Absent]

PartSamples ==
    { Absent,
      Arr(<<>>),
      Arr(<< Part("text/plain", "SGkgdGhlcmU=") >>),
      Arr(<< Part("text/plain", "SGkgdGhlcmU="), Part("text/html", "PGI-SGk8L2I-") >>),
      Arr(<< [mimeType |-> "multipart/alternative", body |-> Absent,
              parts |-> Arr(<< Part("text/html", "Pz8_Pg==") >>)] >>),
      Arr(<< [mimeType |-> "multipart/mixed", body |-> Absent,
              parts |-> Arr(<< Part("text/plain", "SGkgdGhlcmU="),
                               Part("text/html", "Pz8_Pg==") >>)],
             Part("text/html", "PGI-SGk8L2I-") >>),
      Arr(<< [mimeType |-> "text/html", body |-> [js |-> Obj, data |-> Str("")],
              parts |-> Absent],
             Part("text/plain", "SGkgdGhlcmU=") >>),
      Arr(<< Part("text/html", "%%%") >>),
      Arr(<< [mimeType |-> "text/html", body |-> Absent, parts |-> Absent] >>) }

PayloadSamples ==
    {Absent, JsonNull}
    \cup [js : {Obj}, id : {"a"},
          payload : {Absent} \cup [js : {Obj}, headers : HeaderSamples, parts : PartSamples],
          snippet : {"fetched text"},
          internalDate : {Str("1704099600000"), Str("not a number"), Absent},
          labelIds : {Absent, Arr({"INBOX"}), Arr({"INBOX", "UNREAD"})}]

ParseIdle == pData = Absent /\ pOut = Pending
ParseInit == pData \in PayloadSamples /\ pOut = Pending

ParseCall ==
    /\ pOut.kind = "pending"
    /\ pOut' = ParseGmailMessage(pData, "acc_1")
    /\ UNCHANGED pData
    /\ UNCHANGED <<appVars, mergeVars, fetchVars, aiVars, deskVars, viewVars>>

(***************************************************************************)
(* The extraction engine (gmailService.ts:339-543).                        *)
(***************************************************************************)
\* enum ApplicationStatus (part_010:147-156)
ApplicationStatus ==
    { "Application Submitted", "Recruiter Screen", "Technical Phone Screen",
      "Hiring Manager", "Onsite", "Offer", "Rejected", "Withdrawn" }
RECRUITER_SCREEN == "Recruiter Screen"

Digits == "0123456789"
InClass(c, chars) == \E i \in 1..Len(chars) : SubSeq(chars, i, i) = c
IsSpace(c)  == c \in WhiteSpace
\* [A-Z] and [a-zA-Z0-9\s\.]
IsUpper(c)  == InClass(c, UpperCase)
IsCompanyChar(c) ==
    InClass(c, UpperCase) \/ InClass(c, LowerCase) \/ InClass(c, Digits)
    \/ IsSpace(c) \/ c = "."

HasAt(s, i, word) ==
    i + Len(word) - 1 <= Len(s) /\ SubSeq(s, i, i + Len(word) - 1) = word

\* the first position at or after p that holds no white space
RECURSIVE SkipSpace(_, _)
SkipSpace(s, p) ==
    IF p <= Len(s) /\ IsSpace(CharAt(s, p)) THEN SkipSpace(s, p + 1) ELSE p

\* the last position of the run of company characters that starts at p
RECURSIVE CompanyRunEnd(_, _)
CompanyRunEnd(s, p) ==
    IF p + 1 <= Len(s) /\ IsCompanyChar(CharAt(s, p + 1))
    THEN CompanyRunEnd(s, p + 1) ELSE p

\* subject.match(/(?:at|for|to)\s+([A-Z][a-zA-Z0-9\s\.]+)/): where the
\* capture starts when the pattern matches with its keyword at position i,
\* 0 when it does not match there.  \s+ takes the whole run of white space,
\* as [A-Z] matches none.
CompanyCaptureAt(s, i) ==
    LET k == IF HasAt(s, i, "at") THEN 2
             ELSE IF HasAt(s, i, "for") THEN 3
             ELSE IF HasAt(s, i, "to") THEN 2 ELSE 0
        w == i + k
        p == SkipSpace(s, w)
    IN  IF k > 0 /\ p > w /\ p + 1 <= Len(s)
           /\ IsUpper(CharAt(s, p)) /\ IsCompanyChar(CharAt(s, p + 1))
        THEN p ELSE 0

CompanyMatches(s) == \E i \in 1..Len(s) : CompanyCaptureAt(s, i) > 0
\* the capture of the leftmost match
CompanyCapture(s) ==
    LET i == CHOOSE i \in 1..Len(s) :
                 /\ CompanyCaptureAt(s, i) > 0
                 /\ \A j \in 1..(i - 1) : CompanyCaptureAt(s, j) = 0
        p == CompanyCaptureAt(s, i)
    IN  SubSeq(s, p, CompanyRunEnd(s, p))

\* s.split(sep)[0] for a separator string
BeforeFirst(s, sep) ==
    IF Includes(s, sep)
    THEN LET i == CHOOSE i \in 1..Len(s) :
                      /\ HasAt(s, i, sep)
                      /\ \A j \in 1..(i - 1) : ~ HasAt(s, j, sep)
         IN  SubSeq(s, 1, i - 1)
    ELSE s

\* subject.split(/[-|...]/): the separators of the pattern, over ASCII
IsSeparator(c) == c = "-" \/ c = "|"
HasSeparator(s) == \E i \in 1..Len(s) : IsSeparator(CharAt(s, i))
LastSegment(s) ==
    LET i == CHOOSE i \in 1..Len(s) :
                 /\ IsSeparator(CharAt(s, i))
                 /\ \A j \in (i + 1)..Len(s) : ~ IsSeparator(CharAt(s, j))
    IN  SubSeq(s, i + 1, Len(s))

\* a company taken from the capture as it is, white space included
FallbackCompanyNoTrim(subject) ==
    IF CompanyMatches(subject) THEN CompanyCapture(subject)
    ELSE IF HasSeparator(subject)
    THEN LET candidate == Trim(LastSegment(subject))
         IN  IF Len(candidate) < 30 THEN candidate ELSE ""
    ELSE ""

\* lines 366-380
FallbackCompany(subject) ==
    IF CompanyMatches(subject)
    THEN LET company == Trim(CompanyCapture(subject))
         IN  IF Includes(company, " - ") THEN BeforeFirst(company, " - ") ELSE company
    ELSE IF HasSeparator(subject)
    THEN LET candidate == Trim(LastSegment(subject))
         IN  IF Len(candidate) < 30 THEN candidate ELSE ""
    ELSE ""

\* emailText.match(/(?:Role|Position|Opening):\s*([^\n\.]+)/i): where the
\* capture starts when the pattern matches with its label at position i, 0
\* when it does not match there.  \s* gives white space back until the
\* capture can start.
IsRoleChar(c) == c # "\n" /\ c # "."
RoleLabelLen(s, i) ==
    LET low == ToLowerCase(SubSeq(s, i, Min(Len(s), i + 8)))
    IN  IF StartsWith(low, "role:") THEN 5
        ELSE IF StartsWith(low, "position:") THEN 9
        ELSE IF StartsWith(low, "opening:") THEN 8 ELSE 0
RoleCaptureAt(s, i) ==
    LET k == RoleLabelLen(s, i)
        q == i + k
        r == SkipSpace(s, q)
        starts == {g \in q..r : g <= Len(s) /\ IsRoleChar(CharAt(s, g))}
    IN  IF k > 0 /\ starts # {}
        THEN CHOOSE g \in starts : \A h \in starts : h <= g
        ELSE 0

RECURSIVE RoleRunEnd(_, _)
RoleRunEnd(s, p) ==
    IF p + 1 <= Len(s) /\ IsRoleChar(CharAt(s, p + 1)) THEN RoleRunEnd(s, p + 1) ELSE p

RoleMatches(s) == \E i \in 1..Len(s) : RoleCaptureAt(s, i) > 0
RoleCapture(s) ==
    LET i == CHOOSE i \in 1..Len(s) :
                 /\ RoleCaptureAt(s, i) > 0
                 /\ \A j \in 1..(i - 1) : RoleCaptureAt(s, j) = 0
        p == RoleCaptureAt(s, i)
    IN  SubSeq(s, p, RoleRunEnd(s, p))

CommonRoles == {"Engineer", "Developer", "Designer", "Manager", "Product", "Analyst"}

\* subject.split(/\s(at|for)\s/)[0]
IsRoleSplitAt(s, i) ==
    /\ IsSpace(CharAt(s, i))
    /\ \/ (HasAt(s, i + 1, "at")  /\ i + 3 <= Len(s) /\ IsSpace(CharAt(s, i + 3)))
       \/ (HasAt(s, i + 1, "for") /\ i + 4 <= Len(s) /\ IsSpace(CharAt(s, i + 4)))
BeforeRoleSplit(s) ==
    IF \E i \in 1..Len(s) : IsRoleSplitAt(s, i)
    THEN LET i == CHOOSE i \in 1..Len(s) :
                      IsRoleSplitAt(s, i) /\ \A j \in 1..(i - 1) : ~ IsRoleSplitAt(s, j)
         IN  SubSeq(s, 1, i - 1)
    ELSE s

\* lines 384-397
FallbackRole(emailText, subject) ==
    IF RoleMatches(emailText) THEN Trim(RoleCapture(emailText))
    ELSE IF \E r \in CommonRoles : Includes(subject, r) THEN BeforeRoleSplit(subject)
    ELSE ""

\* a fallback that answers with the defaults whatever the text says
FallbackDefaultsOnly(emailText, subject) ==
    [companyName |-> "Unknown Company", roleTitle |-> "Unknown Role",
     status |-> RECRUITER_SCREEN, jobLink |-> "", nextInterviewDate |-> Absent]

\* a fallback that returns what it found, without the defaults
FallbackNoDefaults(emailText, subject) ==
    [companyName |-> FallbackCompany(subject),
     roleTitle   |-> FallbackRole(emailText, subject),
     status      |-> RECRUITER_SCREEN,
     jobLink     |-> "",
     nextInterviewDate |-> Absent]

\* fallbackExtraction, lines 361-405
FallbackExtraction(emailText, subject) ==
    LET company == FallbackCompany(subject)
        role    == FallbackRole(emailText, subject)
    IN  [companyName |-> IF company = "" THEN "Unknown Company" ELSE company,
         roleTitle   |-> IF role = "" THEN "Unknown Role" ELSE role,
         status      |-> RECRUITER_SCREEN,
         jobLink     |-> "",
         nextInterviewDate |-> Absent]

\* a boolean of a parsed JSON document
Bool(b) == [js |-> "boolean", v |-> b]
Num     == [js |-> "number"]
\* JavaScript truthiness of a value of the model
Truthy(x) ==
    CASE x.js = "string"  -> x.v # ""
      [] x.js = "boolean" -> x.v
      [] x.js \in {"undefined", "null"} -> FALSE
      [] OTHER -> TRUE
\* result.field: a primitive has no such property
Get(result, field) == IF result.js = Obj THEN result[field] ELSE Absent

\* a guard that takes every environment for one with a credential
HasApiKeyAlways(key) == TRUE

\* !process.env.API_KEY, lines 408 and 481, negated
HasApiKey(key) == Truthy(key)

ModelCall(op) == [model |-> "gemini-2.5-flash", op |-> op]

\* what ai.models.generateContent can do: reject, or resolve with a response
\* whose text is missing, empty, or a document JSON.parse takes or refuses
CallRejects   == [kind |-> "rejected", error |-> NetworkError,
                  text |-> Absent, json |-> NotJson]
Response(text, json) == [kind |-> "response", error |-> Absent,
                         text |-> text, json |-> json]

\* a try block that returns the status of the document as it came
ExtractTryTrustStatus(outcome) ==
    IF outcome.kind = "rejected" THEN Raise(outcome.error)
    ELSE IF ~ Truthy(outcome.text) THEN Raise(Error("No response from Gemini"))
    ELSE IF outcome.json.js = "not json" THEN Raise(SyntaxError)
    ELSE IF outcome.json.js = "null" THEN Raise(TypeError)
    ELSE LET given == Get(outcome.json, "status")
         IN  Value([companyName |-> "Unknown Company", roleTitle |-> "Unknown Role",
                    status |-> IF given.js = "string" THEN given.v ELSE "",
                    jobLink |-> "", nextInterviewDate |-> Absent])

\* the try block of extractJobDetailsFromEmail, lines 486-536
ExtractTry(outcome) ==
    IF outcome.kind = "rejected" THEN Raise(outcome.error)
    ELSE IF ~ Truthy(outcome.text) THEN Raise(Error("No response from Gemini"))
    ELSE IF outcome.json.js = "not json" THEN Raise(SyntaxError)
    ELSE IF outcome.json.js = "null" THEN Raise(TypeError)
    ELSE LET result == outcome.json
             given  == Get(result, "status")
             status == IF given.js = "string" /\ given.v \in ApplicationStatus
                       THEN given.v ELSE RECRUITER_SCREEN
             name   == Get(result, "companyName")
             role   == Get(result, "roleTitle")
             link   == Get(result, "jobLink")
             date   == Get(result, "nextInterviewDate")
         IN  Value([companyName |-> IF Truthy(name) THEN name.v ELSE "Unknown Company",
                    roleTitle   |-> IF Truthy(role) THEN role.v ELSE "Unknown Role",
                    status      |-> status,
                    jobLink     |-> IF Truthy(link) THEN link.v ELSE "",
                    nextInterviewDate |-> IF Truthy(date) THEN date ELSE Absent])

\* an extraction without its catch block: the failure leaves the function
ExtractSettleNoCatch(outcome, emailText, subject) ==
    LET t == ExtractTry(outcome)
    IN  IF t.kind = "raise" THEN Rejected(t.error) ELSE Resolved(t.value)

\* extractJobDetailsFromEmail from the settled call on, lines 520-542
ExtractSettle(outcome, emailText, subject) ==
    LET t == ExtractTry(outcome)
    IN  IF t.kind = "raise"
        THEN Resolved(FallbackExtraction(emailText, subject))
        ELSE Resolved(t.value)

\* lines 410-415
AnalyzeNoKey ==
    [suggestedStatus |-> JsonNull, companyName |-> JsonNull,
     isRecruitingEmail |-> Bool(FALSE),
     reasoning |-> Str("API Key missing. Cannot analyze.")]
\* lines 470-475
AnalyzeFailed ==
    [suggestedStatus |-> JsonNull, companyName |-> JsonNull,
     isRecruitingEmail |-> Bool(FALSE),
     reasoning |-> Str("Analysis failed.")]

\* a classification that returns the suggested status of the document as it
\* came
AnalyzeSettleTrustStatus(outcome) ==
    IF outcome.kind = "rejected" \/ ~ Truthy(outcome.text)
       \/ outcome.json.js \in {"not json", "null"}
    THEN Resolved(AnalyzeFailed)
    ELSE LET result == outcome.json
             given  == Get(result, "suggestedStatus")
             name   == Get(result, "companyName")
         IN  Resolved([suggestedStatus |-> IF Truthy(given) THEN given ELSE JsonNull,
                       companyName |-> IF Truthy(name) THEN name ELSE JsonNull,
                       isRecruitingEmail |-> Get(result, "isRecruitingEmail"),
                       reasoning |-> Get(result, "reasoning")])

\* analyzeEmailWithGemini from the settled call on, lines 448-476
AnalyzeSettle(outcome) ==
    IF outcome.kind = "rejected" \/ ~ Truthy(outcome.text)
       \/ outcome.json.js \in {"not json", "null"}
    THEN Resolved(AnalyzeFailed)
    ELSE LET result == outcome.json
             given  == Get(result, "suggestedStatus")
             name   == Get(result, "companyName")
         IN  Resolved([suggestedStatus |->
                           IF Truthy(given) /\ given.js = "string"
                              /\ given.v \in ApplicationStatus
                           THEN given ELSE JsonNull,
                       companyName |-> IF Truthy(name) THEN name ELSE JsonNull,
                       isRecruitingEmail |-> Get(result, "isRecruitingEmail"),
                       reasoning |-> Get(result, "reasoning")])

\* ---- the inputs of one call
Subjects ==
    { "Interview at Google",
      "Application for Software Engineer at Acme Corp. - next steps",
      "Senior Engineer | Stripe",
      "Your application to the team",
      "Hello" }
EmailTexts ==
    { "Role: Backend Engineer. Apply now",
      "We loved your profile",
      "position:  \n.",
      "" }
ApiKeys == {Absent, Str(""), Str("AIzaSyExample")}

ExtractDocuments ==
    {NotJson, JsonNull, Num}
    \cup {[js |-> Obj, companyName |-> c, roleTitle |-> r, jobLink |-> l,
           nextInterviewDate |-> d, status |-> st] :
             c \in {Absent, Str(""), Str("Initech")},
             r \in {Absent, Str("Data Analyst")},
             l \in {JsonNull, Str("https://initech.example/jobs/7")},
             d \in {JsonNull, Str("2024-01-05T10:00:00")},
             st \in {Absent, Str("Offer"), Str("Interviewing")}}
AnalyzeDocuments ==
    {NotJson, JsonNull, Num}
    \cup {[js |-> Obj, isRecruitingEmail |-> Bool(b), companyName |-> c,
           suggestedStatus |-> st, reasoning |-> Str("mentions an interview")] :
             b \in BOOLEAN,
             c \in {JsonNull, Str("Initech")},
             st \in {JsonNull, Str("Onsite"), Str("Interviewing")}}
Outcomes(documents) ==
    {CallRejects, Response(Absent, NotJson), Response(Str(""), NotJson)}
    \cup {Response(Str("text"), j) : j \in documents}

NoOutcome == [kind |-> "none"]

\* ---- the inputs of a call without a credential: subjects made of words, a
\* preposition and a capitalized phrase, and subjects without one
FormWords    == {"Interview", "Great Opportunity", "Application"}
Prepositions == {"at", "for", "to"}
FormPhrases  == {"Acme Corp", "Google ", "Initech Inc.", "O'Reilly"}
FormSubject(w, prep, phrase) == w \o " " \o prep \o " " \o phrase
FormSubjects ==
    {FormSubject(w, prep, phrase) :
        w \in FormWords, prep \in Prepositions, phrase \in FormPhrases}
PlainSubjects ==
    {"Hello", "Your application update", "thanks for applying",
     "Engineer wanted", "Great Offer", "Stripe | hiring"}
NoKeys == {Absent, Str("")}

FallbackInit ==
    /\ xPc = "start"
    /\ xOp = "extract"
    /\ xArgs \in [emailText : EmailTexts, subject : FormSubjects \cup PlainSubjects]
    /\ xApiKey \in NoKeys
    /\ xCalls = <<>> /\ xPath = {} /\ xOutcome = NoOutcome /\ xResult = Pending

AiIdle ==
    /\ xPc = "off" /\ xOp = "none" /\ xArgs = Absent /\ xApiKey = Absent
    /\ xCalls = <<>> /\ xPath = {} /\ xOutcome = NoOutcome /\ xResult = Pending
AiInit ==
    /\ xPc = "start"
    /\ xOp \in {"extract", "analyze"}
    /\ xArgs \in [emailText : EmailTexts, subject : Subjects]
    /\ xApiKey \in ApiKeys
    /\ xCalls = <<>> /\ xPath = {} /\ xOutcome = NoOutcome /\ xResult = Pending

\* extractJobDetailsFromEmail up to its await, lines 479-518
ExtractStart ==
    /\ xPc = "start" /\ xOp = "extract"
    /\ IF ~ HasApiKey(xApiKey)
       THEN /\ xPath' = xPath \cup {"no credential"}
            /\ xResult' = Resolved(FallbackExtraction(xArgs.emailText, xArgs.subject))
            /\ xPc' = "done"
            /\ UNCHANGED xCalls
       ELSE /\ xPath' = xPath \cup {"model"}
            /\ xCalls' = Append(xCalls, ModelCall("extract"))
            /\ xPc' = "calling"
            /\ UNCHANGED xResult
    /\ UNCHANGED <<xOp, xArgs, xApiKey, xOutcome>>
    /\ UNCHANGED <<appVars, mergeVars, fetchVars, parseVars, viewVars, deskVars>>

\* the model call settles and the function runs to its end, lines 520-542
ExtractCallSettles ==
    /\ xPc = "calling" /\ xOp = "extract"
    /\ \E outcome \in Outcomes(ExtractDocuments) :
           /\ xOutcome' = outcome
           /\ xResult' = ExtractSettle(outcome, xArgs.emailText, xArgs.subject)
    /\ xPc' = "done"
    /\ UNCHANGED <<xOp, xArgs, xApiKey, xCalls, xPath>>
    /\ UNCHANGED <<appVars, mergeVars, fetchVars, parseVars, viewVars, deskVars>>

\* analyzeEmailWithGemini up to its await, lines 407-446
AnalyzeStart ==
    /\ xPc = "start" /\ xOp = "analyze"
    /\ IF ~ HasApiKey(xApiKey)
       THEN /\ xPath' = xPath \cup {"no credential"}
            /\ xResult' = Resolved(AnalyzeNoKey)
            /\ xPc' = "done"
            /\ UNCHANGED xCalls
       ELSE /\ xPath' = xPath \cup {"model"}
            /\ xCalls' = Append(xCalls, ModelCall("analyze"))
            /\ xPc' = "calling"
            /\ UNCHANGED xResult
    /\ UNCHANGED <<xOp, xArgs, xApiKey, xOutcome>>
    /\ UNCHANGED <<appVars, mergeVars, fetchVars, parseVars, viewVars, deskVars>>

\* the model call settles and the function runs to its end, lines 448-476
AnalyzeCallSettles ==
    /\ xPc = "calling" /\ xOp = "analyze"
    /\ \E outcome \in Outcomes(AnalyzeDocuments) :
           /\ xOutcome' = outcome
           /\ xResult' = AnalyzeSettle(outcome)
    /\ xPc' = "done"
    /\ UNCHANGED <<xOp, xArgs, xApiKey, xCalls, xPath>>
    /\ UNCHANGED <<appVars, mergeVars, fetchVars, parseVars, viewVars, deskVars>>

(***************************************************************************)
(* The App component (part_012): accounts, messages and one scan.          *)
(***************************************************************************)
Mailboxes == {"jane@gmail.com", "joe@gmail.com"}

\* the ids the provider holds for a mailbox; an id names one message of one
\* mailbox, whichever account reads it
MailboxIds(email) ==
    IF email = "jane@gmail.com" THEN {"a", "b"}
    ELSE IF email = "joe@gmail.com" THEN {"c"}
    ELSE {}

\* constants: MOCK_ACCOUNTS and MOCK_MESSAGES (part_010:114-144)
MOCK_ACCOUNTS ==
    << [id |-> "acc_1", provider |-> "Gmail", email |-> "alex.dev@gmail.com",
        accessToken |-> "mock_token_1", status |-> "Connected",
        lastSyncedAt |-> "load"] >>

MOCK_MESSAGES ==
    << [id          |-> "m1",
        accountId   |-> "acc_1",
        provider    |-> "Gmail",
        senderName  |-> "Sarah Jenkins",
        senderEmail |-> "sarah@techcorp.com",
        subject     |-> "Update on your application at TechCorp",
        snippet     |-> "existing text",
        fullBody    |-> "Hi Alex",
        rawContent  |-> [json |-> Absent],
        receivedAt  |-> "2024-01-01T09:00:00.000Z",
        link        |-> "#",
        isRead      |-> TRUE,
        linkedApplicationId |-> "1"] >>

\* connectRealGoogleAccount / connectMockAccount (part_002:95-105, 139-155)
RealAccount(n, email) ==
    [id |-> "acc_gmail_" \o ToString(n), provider |-> "Gmail", email |-> email,
     accessToken |-> "ya29.token" \o ToString(n), status |-> "Connected",
     lastSyncedAt |-> "connect"]
MockAccount(n) ==
    [id |-> "acc_" \o ToString(n), provider |-> "Gmail",
     email |-> "demo.user@gmail.com",
     accessToken |-> "mock_token_" \o ToString(n), status |-> "Connected",
     lastSyncedAt |-> "connect"]

\* syncAccountData (part_002:176-187)
SyncAccountData(account) ==
    [account EXCEPT !.lastSyncedAt = "sync", !.status = "Connected"]

\* the test of the scan loop, part_012:147
ScansAccount(acc) ==
    acc.provider = "Gmail" /\ acc.accessToken # "" /\ ~ IsMockToken(acc.accessToken)

\* the first account at or after position from that the loop awaits a fetch
\* for; Len + 1 when the loop runs to its end
RECURSIVE NextFetchIdx(_, _)
NextFetchIdx(accs, from) ==
    IF from > Len(accs) THEN from
    ELSE IF ScansAccount(accs[from]) THEN from
    ELSE NextFetchIdx(accs, from + 1)

\* what fetchGmailMessages resolves with for a listing q whose items all
\* arrive; an item that fails is one the listing does not hold
FetchedBatch(acc, q) ==
    NonNull([i \in 1..Len(q) |-> FetchDetails(GoodAnswer(q[i]), acc.id)])

\* localStorage.getItem(key): null, or the array last written under the key
NoItem  == [has |-> FALSE]
Item(v) == [has |-> TRUE, v |-> v]
\* part_012:45-47: stored ? JSON.parse(stored) : []
LoadItem(item) == IF item.has THEN item.v ELSE <<>>
EmptyStore == [applications |-> NoItem, messages |-> NoItem, accounts |-> NoItem]

\* part_012:54-60: the effect that runs after a render in which applications,
\* messages, accounts or the mode changed
PersistEffect ==
    store' = IF isMockMode' THEN store
             ELSE [applications |-> Item(applications'),
                   messages     |-> Item(messages'),
                   accounts     |-> Item(accounts')]

\* part_012:74-76
HandleAddAccount ==
    /\ Len(accounts) < MaxAccounts
    /\ nextAccountId < MaxConnects
    /\ \E account \in {RealAccount(nextAccountId + 1, e) : e \in Mailboxes}
                      \cup {MockAccount(nextAccountId + 1)} :
          accounts' = Append(accounts, account)
    /\ nextAccountId' = nextAccountId + 1
    /\ UNCHANGED <<messages, isScanning, isEmailScanned, scanPc, updatedAccounts,
                   scanIdx, newRealMessages, scanSnapshot>>
    /\ UNCHANGED <<mergeVars, fetchVars, parseVars, viewVars, aiVars>>
    /\ UNCHANGED <<applications, deskRest>>
    /\ PersistEffect

\* a removal that leaves the messages of the account in place
RemoveAccountOnly(id) ==
    /\ accounts' = SelectSeq(accounts, LAMBDA acc : acc.id # id)
    /\ messages' = messages

\* part_012:78-81: the two updaters of handleRemoveAccount(id)
RemoveAccount(id) ==
    /\ accounts' = SelectSeq(accounts, LAMBDA acc : acc.id # id)
    /\ messages' = SelectSeq(messages, LAMBDA msg : msg.accountId # id)

\* part_012:78-81, called from the account list with a listed account's id
HandleRemoveAccount ==
    /\ \E k \in DOMAIN accounts :
          /\ RemoveAccount(accounts[k].id)
          /\ removedInScan' = IF scanPc = "idle" THEN removedInScan
                              ELSE removedInScan \cup {accounts[k].id}
    /\ UNCHANGED <<isScanning, isEmailScanned, scanPc, updatedAccounts, scanIdx,
                   newRealMessages, scanSnapshot, nextAccountId>>
    /\ UNCHANGED <<mergeVars, fetchVars, parseVars, replyVars, overlapVars, jdVars,
                   toggleVars, aiVars>>
    /\ UNCHANGED <<applications, deskRest>>
    /\ PersistEffect

\* part_012:134-138: the scan button is disabled while isScanning
ScanStart ==
    /\ scanPc = "idle" /\ ~ isScanning
    /\ isScanning' = TRUE
    /\ scanSnapshot' = accounts
    /\ scanPc' = "sync"
    /\ UNCHANGED <<messages, accounts, isEmailScanned, updatedAccounts, scanIdx,
                   newRealMessages, nextAccountId>>
    /\ UNCHANGED <<mergeVars, fetchVars, parseVars, viewVars, aiVars, deskVars>>

\* part_012:141-152: the syncs resolve, the accounts are replaced by the
\* synced snapshot and the loop runs to its first fetch, or to the timer
ScanSynced ==
    /\ scanPc = "sync"
    /\ LET synced == [i \in 1..Len(scanSnapshot) |-> SyncAccountData(scanSnapshot[i])]
           idx    == NextFetchIdx(synced, 1)
       IN  /\ updatedAccounts' = synced
           /\ accounts' = synced
           /\ newRealMessages' = <<>>
           /\ scanSnapshot' = <<>>
           /\ scanIdx' = idx
           /\ scanPc' = IF idx > Len(synced) THEN "timer" ELSE "fetch"
    /\ UNCHANGED <<messages, isScanning, isEmailScanned, nextAccountId>>
    /\ UNCHANGED <<mergeVars, fetchVars, parseVars, viewVars, aiVars>>
    /\ UNCHANGED <<applications, deskRest>>
    /\ PersistEffect

\* part_012:149-152: the awaited fetch resolved with gmailMsgs; the loop
\* goes on to the next fetch or to the timer
ScanAwaitResolved(gmailMsgs) ==
    /\ scanPc = "fetch"
    /\ LET idx == NextFetchIdx(updatedAccounts, scanIdx + 1)
       IN  /\ newRealMessages' = newRealMessages \o gmailMsgs
           /\ scanIdx' = idx
           /\ scanPc' = IF idx > Len(updatedAccounts) THEN "timer" ELSE "fetch"
    /\ UNCHANGED <<messages, accounts, isScanning, isEmailScanned, updatedAccounts,
                   scanSnapshot, nextAccountId>>
    /\ UNCHANGED <<mergeVars, parseVars, viewVars, aiVars, deskVars>>

\* a catch block that forgets to end the scanning state
ScanCatchStillScanning ==
    /\ scanPc = "fetch"
    /\ scanPc' = "idle"
    /\ updatedAccounts' = <<>> /\ scanIdx' = 0 /\ newRealMessages' = <<>>
    /\ removedInScan' = {}
    /\ UNCHANGED <<messages, accounts, isScanning, isEmailScanned, scanSnapshot,
                   nextAccountId>>
    /\ firstMerged' = IF firstMerged.by = "B" THEN NoMerge ELSE firstMerged
    /\ UNCHANGED <<mergeVars, parseVars, replyVars, scanB, jdVars, toggleVars, aiVars,
                   deskVars>>

\* a catch block that marks the mail as scanned
ScanCatchMarksScanned ==
    /\ scanPc = "fetch"
    /\ isScanning' = FALSE
    /\ isEmailScanned' = TRUE
    /\ scanPc' = "idle"
    /\ updatedAccounts' = <<>> /\ scanIdx' = 0 /\ newRealMessages' = <<>>
    /\ removedInScan' = {}
    /\ firstMerged' = IF firstMerged.by = "B" THEN NoMerge ELSE firstMerged
    /\ UNCHANGED <<messages, accounts, scanSnapshot, nextAccountId>>
    /\ UNCHANGED <<mergeVars, parseVars, replyVars, scanB, jdVars, toggleVars, aiVars,
                   deskVars>>

\* part_012:170-182: the awaited fetch rejected; the catch block ends the scan
ScanCatch ==
    /\ scanPc = "fetch"
    /\ isScanning' = FALSE
    /\ scanPc' = "idle"
    /\ updatedAccounts' = <<>> /\ scanIdx' = 0 /\ newRealMessages' = <<>>
    /\ removedInScan' = {}
    /\ UNCHANGED <<messages, accounts, isEmailScanned, scanSnapshot, nextAccountId>>
    /\ firstMerged' = IF firstMerged.by = "B" THEN NoMerge ELSE firstMerged
    /\ UNCHANGED <<mergeVars, parseVars, replyVars, scanB, jdVars, toggleVars, aiVars,
                   deskVars>>

\* the awaited fetch resolves with what the account's mailbox holds
ScanFetchResolves ==
    /\ scanPc = "fetch"
    /\ LET acc == updatedAccounts[scanIdx]
       IN  \E q \in DistinctSeqs(MailboxIds(acc.email), MaxListing) :
               ScanAwaitResolved(FetchedBatch(acc, q))
    /\ UNCHANGED fetchVars

\* the awaited fetch rejects
ScanFetchRejects == ScanCatch /\ UNCHANGED fetchVars

\* ---- the scan with each awaited fetchGmailMessages call run step by step
\* part_012:149: the loop calls fetchGmailMessages(acc.accessToken, acc.id,
\* 20, timeWindow) and awaits it; the Rescan button passes no time window
ScanFetchCalls ==
    /\ scanPc = "fetch" /\ fPc = "off"
    /\ LET acc == updatedAccounts[scanIdx]
       IN  fArgs' = [accessToken |-> acc.accessToken, accountId |-> acc.id,
                     limit |-> 20, timeWindow |-> "30d"]
    /\ fPc' = "start"
    /\ fRequests' = <<>> /\ fListResp' = NoResponse
    /\ fListing' = <<>> /\ fServed' = <<>> /\ fSlots' = <<>> /\ fResult' = Pending
    /\ UNCHANGED <<appVars, mergeVars, parseVars, viewVars, aiVars, deskVars>>

\* the call resolved: line 149-150
ScanFetchReturned ==
    /\ fPc = "done" /\ fResult.kind = "resolved"
    /\ ScanAwaitResolved(fResult.value)
    /\ fPc' = "off"
    /\ UNCHANGED <<fArgs, fRequests, fListResp, fListing, fServed, fSlots, fResult>>

\* the call rejected: control passes to the catch block, line 170
ScanFetchThrew ==
    /\ fPc = "done" /\ fResult.kind = "rejected"
    /\ ScanCatch
    /\ fPc' = "off"
    /\ UNCHANGED <<fArgs, fRequests, fListResp, fListing, fServed, fSlots, fResult>>

\* part_012:134-138 for the step-by-step scan, started while the stored
\* collection is within its bound
ScanStartStored ==
    /\ Len(messages) <= MaxStored
    /\ ScanStart

\* the component with one synthetic and two real accounts connected
ScanFetchInit ==
    /\ messages = MOCK_MESSAGES
    /\ accounts = MOCK_ACCOUNTS \o << RealAccount(1, "jane@gmail.com"),
                                      RealAccount(2, "joe@gmail.com") >>
    /\ isScanning = FALSE /\ isEmailScanned = TRUE
    /\ scanPc = "idle" /\ updatedAccounts = <<>> /\ scanIdx = 0
    /\ newRealMessages = <<>> /\ scanSnapshot = <<>>
    /\ nextAccountId = 2

\* the ids of a batch, in its order
IdsOf(batch) == [i \in DOMAIN batch |-> batch[i].id]

\* part_012:154-169: the timer callback
ScanTimerFires ==
    /\ scanPc = "timer"
    /\ isScanning' = FALSE
    /\ isEmailScanned' = TRUE
    /\ messages' = Merge(messages, newRealMessages)
    /\ scanPc' = "idle"
    /\ updatedAccounts' = <<>> /\ scanIdx' = 0 /\ newRealMessages' = <<>>
    /\ removedInScan' = {}
    /\ firstMerged' = IF scanB.pc = "idle" THEN NoMerge
                      ELSE [by |-> "A", ids |-> IdsOf(newRealMessages)]
    /\ UNCHANGED <<accounts, scanSnapshot, nextAccountId, scanB>>
    /\ UNCHANGED <<mergeVars, fetchVars, parseVars, replyVars, jdVars, toggleVars,
                   aiVars>>
    /\ UNCHANGED <<applications, deskRest>>
    /\ PersistEffect

\* the state once the component has mounted in mock mode (part_012:33-39)
AppInit ==
    /\ messages = MOCK_MESSAGES /\ accounts = MOCK_ACCOUNTS
    /\ isScanning = FALSE /\ isEmailScanned = TRUE
    /\ scanPc = "idle" /\ updatedAccounts = <<>> /\ scanIdx = 0
    /\ newRealMessages = <<>> /\ scanSnapshot = <<>>
    /\ nextAccountId = 0

(***************************************************************************)
(* Applications, links, data mode and the creation flow.                   *)
(* An application is modelled by its id, companyName, roleTitle and        *)
(* status; its other fields (dates, notes, recruiter, links) are carried   *)
(* along by the code unchanged and are left out.                           *)
(***************************************************************************)
SUBMITTED == "Application Submitted"

App(id, companyName, roleTitle, status) ==
    [id |-> id, companyName |-> companyName, roleTitle |-> roleTitle,
     status |-> status]

\* part_010:22-96
INITIAL_APPLICATIONS ==
    << App("1", "TechCorp", "Senior Frontend Engineer", "Onsite"),
       App("2", "StartupInc", "Full Stack Developer", "Technical Phone Screen"),
       App("3", "BigData Systems", "UI Engineer", "Recruiter Screen"),
       App("4", "CloudNet", "Frontend Architect", "Offer"),
       App("5", "Designify", "Product Engineer", "Application Submitted"),
       App("6", "Legacy Bank", "Web Developer", "Rejected") >>

\* selectedMessageId === null
NoSelection == ""

\* part_012:62-64: prev.map(app => app.id === updatedApp.id ? updatedApp : app)
UpdateApplication(prev, updatedApp) ==
    [i \in DOMAIN prev |-> IF prev[i].id = updatedApp.id THEN updatedApp ELSE prev[i]]

\* part_012:66-68: [newApp, ...prev]
AddApplication(prev, newApp) == <<newApp>> \o prev

\* an updater that links every stored message
LinkMessageAll(prev, message, appId) ==
    [i \in DOMAIN prev |-> [prev[i] EXCEPT !.linkedApplicationId = appId]]

\* part_012:70-72: prev.map(m => m.id === message.id ? {...m, linkedApplicationId: appId} : m)
LinkMessage(prev, message, appId) ==
    [i \in DOMAIN prev |->
        IF prev[i].id = message.id
        THEN [prev[i] EXCEPT !.linkedApplicationId = appId]
        ELSE prev[i]]

\* Array.prototype.find on ids: the index of the first match, or 0
FindIndex(seq, id) ==
    IF \E i \in DOMAIN seq : seq[i].id = id
    THEN CHOOSE i \in DOMAIN seq :
            seq[i].id = id /\ \A j \in 1..(i - 1) : seq[j].id # id
    ELSE 0

\* part_003:33-37: { ...selectedApp, status: newStatus }
StatusChanged(selectedApp, newStatus) == [selectedApp EXCEPT !.status = newStatus]

\* a status select that does not let an application leave Rejected or Withdrawn
StatusOptionsTerminal(selectedApp) ==
    IF selectedApp.status \in {"Rejected", "Withdrawn"} THEN {}
    ELSE ApplicationStatus \ {selectedApp.status}

\* part_003:283-289: the options of the status select; onChange fires for an
\* option other than the current one
StatusOptions(selectedApp) == ApplicationStatus \ {selectedApp.status}

\* part_003:76-91: handleCreateNew's application, its id from Date.now()
NewApplication(t) == App("app_" \o ToString(t), "New Company", "New Role", SUBMITTED)

\* extractJobDetailsFromEmail as a whole (gmailService.ts:479-543): without
\* a key the fallback, with a key what the settled model call leads to
ExtractJobDetailsFromEmail(key, outcome, emailText, subject) ==
    IF ~ HasApiKey(key)
    THEN Resolved(FallbackExtraction(emailText, subject))
    ELSE ExtractSettle(outcome, emailText, subject)

\* the documents the model answers the creation flow with: no object, or an
\* object whose status is missing, a status value, or some other string
DraftDocuments ==
    {NotJson}
    \cup {[js |-> Obj, companyName |-> Str("Initech"), roleTitle |-> Absent,
           jobLink |-> JsonNull, nextInterviewDate |-> JsonNull, status |-> st] :
             st \in {Absent, Str("Offer"), Str("Withdrawn"), Str("Interviewing")}}

\* a draft that takes the status of the model's document as it came
DraftFromDocument(settled, outcome, message, t) ==
    LET given == IF outcome.kind = "response" /\ outcome.json.js = Obj
                 THEN Get(outcome.json, "status") ELSE Absent
    IN  [companyName |-> "", roleTitle |-> "",
         status |-> IF given.js = "string" THEN given.v ELSE RECRUITER_SCREEN,
         dateApplied |-> t]

\* a draft dated with the message instead of the clock
DraftFromReceivedAt(settled, outcome, message, t) ==
    [companyName |-> settled.value.companyName,
     roleTitle   |-> settled.value.roleTitle,
     jobLink     |-> settled.value.jobLink,
     status      |-> settled.value.status,
     nextInterviewDate |-> settled.value.nextInterviewDate,
     dateApplied |-> DateGetTime(message.receivedAt),
     notes       |-> <<>>,
     recruiter   |-> [name |-> message.senderName, email |-> message.senderEmail]]

\* InboundEmails.tsx:126-150: the draft set from the awaited extraction, or
\* the fallback draft of the catch block; t is the clock's reading
DraftFrom(settled, outcome, message, t) ==
    IF settled.kind = "resolved"
    THEN [companyName |-> settled.value.companyName,
          roleTitle   |-> settled.value.roleTitle,
          jobLink     |-> settled.value.jobLink,
          status      |-> settled.value.status,
          nextInterviewDate |-> settled.value.nextInterviewDate,
          dateApplied |-> t,
          notes       |-> <<>>,
          recruiter   |-> [name |-> message.senderName,
                           email |-> message.senderEmail]]
    ELSE [companyName |-> "", roleTitle |-> "", status |-> RECRUITER_SCREEN,
          dateApplied |-> t]

\* CreateApplicationModal.tsx:16-29: the initial form, and the effect that
\* merges initialData over it
InitialFormData == [companyName |-> "", roleTitle |-> "", status |-> RECRUITER_SCREEN]
FormMerge(prev, initialData) ==
    [companyName |-> initialData.companyName,
     roleTitle   |-> initialData.roleTitle,
     status      |-> initialData.status]

\* InboundEmails.tsx:159-170: newApp; the trailing ...appData overrides the
\* defaults for every key the form holds, so the form's values are taken as
\* they are
FinalizedApplication(appData, t) ==
    App("app_gen_" \o ToString(t), appData.companyName, appData.roleTitle,
        appData.status)

\* the modal is a full-screen overlay (CreateApplicationModal.tsx:82): the
\* rest of the interface takes clicks only while it is closed
Ui == ~ isCreateModalOpen

scanVars == <<isScanning, scanPc, updatedAccounts, scanIdx, newRealMessages,
              scanSnapshot, nextAccountId>>
flowVars == <<selectedMessageId, isCreateModalOpen, parsingMessage,
              draftApplication, formData>>
engineVars == <<mergeVars, fetchVars, parseVars, aiVars>>

\* a mode switch that loads the stored messages but not the stored applications
LoadRealMessagesOnly ==
    /\ applications' = <<>>
    /\ messages' = LoadItem(store.messages)
    /\ accounts' = LoadItem(store.accounts)
    /\ isEmailScanned' = FALSE

\* part_012:40-49: the load effect in real mode
LoadReal ==
    /\ applications' = LoadItem(store.applications)
    /\ messages' = LoadItem(store.messages)
    /\ accounts' = LoadItem(store.accounts)
    /\ isEmailScanned' = FALSE

\* part_012:34-39: the load effect in mock mode
LoadMock ==
    /\ applications' = INITIAL_APPLICATIONS
    /\ messages' = MOCK_MESSAGES
    /\ accounts' = MOCK_ACCOUNTS
    /\ isEmailScanned' = TRUE

\* part_012:249: setIsMockMode(!isMockMode), then the load effect and the
\* persist effects of the renders that follow
ToggleMockMode ==
    /\ Ui
    /\ isMockMode' = ~ isMockMode
    /\ IF isMockMode THEN LoadReal ELSE LoadMock
    /\ ops < MaxOps /\ ops' = ops + 1
    /\ UNCHANGED <<scanVars, now, edits, trashing, flowVars, engineVars, viewVars>>
    /\ PersistEffect

\* part_003:76-91: handleCreateNew, then handleAddApplication
HandleCreateNew ==
    /\ Ui
    /\ now < MaxCreates
    /\ now' = now + 1
    /\ applications' = AddApplication(applications, NewApplication(now'))
    /\ UNCHANGED <<appVars, isMockMode, ops, edits, trashing, flowVars, engineVars, viewVars>>
    /\ PersistEffect

\* part_012:62-64: handleUpdateApplication(updatedApp)
HandleUpdateApplication(updatedApp) ==
    /\ applications' = UpdateApplication(applications, updatedApp)
    /\ UNCHANGED <<appVars, isMockMode, ops, now, trashing, flowVars, engineVars, viewVars>>

\* part_003:33-37 and 283-289: the status select of the selected application
HandleStatusChange ==
    /\ Ui
    /\ \E k \in DOMAIN applications :
          \E newStatus \in StatusOptions(applications[k]) :
              HandleUpdateApplication(StatusChanged(applications[k], newStatus))
    /\ UNCHANGED edits
    /\ PersistEffect

\* the same, counted against the bound on status changes
HandleStatusChangeCounted ==
    /\ Ui
    /\ edits < MaxEdits
    /\ \E k \in DOMAIN applications :
          \E newStatus \in StatusOptions(applications[k]) :
              HandleUpdateApplication(StatusChanged(applications[k], newStatus))
    /\ edits' = edits + 1
    /\ PersistEffect

\* part_012:70-72: handleLinkMessage(message, appId)
HandleLinkMessage(message, appId) ==
    /\ messages' = LinkMessage(messages, message, appId)
    /\ UNCHANGED <<accounts, isEmailScanned, scanVars, applications, isMockMode,
                   now, trashing, flowVars, engineVars, viewVars>>

\* MessageViewer.tsx:138-172: for a message in the viewer that is not linked
\* yet, the Link Existing list offers the applications of the collection
LinkExisting ==
    /\ Ui
    /\ ops < MaxOps
    /\ \E i \in DOMAIN messages, k \in DOMAIN applications :
          /\ messages[i].linkedApplicationId = NoLink
          /\ HandleLinkMessage(messages[i], applications[k].id)
    /\ ops' = ops + 1
    /\ UNCHANGED edits
    /\ PersistEffect

\* part_012:206: the handler as the inbox view receives it, called with any
\* message and any application id
LinkTargets == {"app_1", "app_gen_2", "no_such_app"}
HandleLinkMessageAny ==
    /\ \E i \in DOMAIN messages, appId \in LinkTargets :
          HandleLinkMessage(messages[i], appId)
    /\ UNCHANGED <<edits, ops>>
    /\ PersistEffect

\* MessageViewer.tsx:128-135 and InboundEmails.tsx:120-127: the Create
\* Application button of a message in the viewer that is not linked yet;
\* handleCreateApplicationClick up to its await, with the call
\* extractJobDetailsFromEmail(selectedMessage.fullBody, selectedMessage.subject
\* || ''); one extraction is in flight at a time
HandleCreateApplicationClick ==
    /\ Ui
    /\ parsingMessage = Absent
    /\ now < MaxCreates
    /\ \E i \in DOMAIN messages :
          /\ messages[i].linkedApplicationId = NoLink
          /\ selectedMessageId' = messages[i].id
          /\ parsingMessage' = messages[i]
    /\ isCreateModalOpen' = TRUE
    /\ xArgs' = [emailText |-> parsingMessage'.fullBody,
                 subject   |-> IF parsingMessage'.subject = "" THEN ""
                               ELSE parsingMessage'.subject]
    /\ ops < MaxOps /\ ops' = ops + 1
    /\ UNCHANGED <<appVars, applications, store, isMockMode, now, edits, trashing,
                   draftApplication, formData, mergeVars, fetchVars, parseVars,
                   xPc, xOp, xApiKey, xCalls, xPath, xOutcome, xResult, viewVars>>

\* InboundEmails.tsx:127-153: the extraction settles (with a key, after the
\* model call has settled), the draft is set and the modal's effect merges
\* it into the form
ExtractionSettles ==
    /\ parsingMessage # Absent
    /\ \E outcome \in (IF HasApiKey(xApiKey) THEN Outcomes(DraftDocuments)
                        ELSE {NoOutcome}) :
          LET settled == ExtractJobDetailsFromEmail(xApiKey, outcome,
                             xArgs.emailText, xArgs.subject)
          IN  /\ xResult' = settled
              /\ draftApplication' = DraftFrom(settled, outcome, parsingMessage, now)
    /\ formData' = FormMerge(formData, draftApplication')
    /\ parsingMessage' = Absent
    /\ UNCHANGED <<appVars, applications, store, isMockMode, ops, now, edits, trashing,
                   selectedMessageId, isCreateModalOpen, mergeVars, fetchVars,
                   parseVars, xPc, xOp, xArgs, xApiKey, xCalls, xPath, xOutcome,
                   viewVars>>

\* CreateApplicationModal.tsx:145-153: the status select of the form
FormSetStatus ==
    /\ isCreateModalOpen /\ parsingMessage = Absent
    /\ \E s \in ApplicationStatus \ {formData.status} :
          formData' = [formData EXCEPT !.status = s]
    /\ UNCHANGED <<appVars, applications, store, isMockMode, ops, now, edits, trashing,
                   selectedMessageId, isCreateModalOpen, parsingMessage,
                   draftApplication, engineVars, viewVars>>

\* CreateApplicationModal.tsx:87 and 197, InboundEmails.tsx:245: the close
\* and cancel buttons; the draft, the form fields and the viewer's message
\* stay as they are
ModalClose ==
    /\ isCreateModalOpen
    /\ isCreateModalOpen' = FALSE
    /\ UNCHANGED <<appVars, applications, store, isMockMode, ops, now, edits, trashing,
                   selectedMessageId, parsingMessage, draftApplication, formData,
                   engineVars, viewVars>>

\* CreateApplicationModal.tsx:34-53 and InboundEmails.tsx:156-179: the form
\* is submitted; handleFinalizeCreateApplication adds the application, links
\* the message in the viewer to it and closes the modal
HandleFinalizeCreateApplication ==
    /\ isCreateModalOpen /\ parsingMessage = Absent
    /\ now < MaxCreates
    /\ LET i == FindIndex(messages, selectedMessageId)
       IN  IF i = 0
           THEN UNCHANGED <<messages, applications, now, flowVars>>
           ELSE LET newApp == FinalizedApplication(formData, now + 1)
                IN  /\ applications' = AddApplication(applications, newApp)
                    /\ messages' = LinkMessage(messages, messages[i], newApp.id)
                    /\ now' = now + 1
                    /\ isCreateModalOpen' = FALSE
                    /\ UNCHANGED <<selectedMessageId, parsingMessage,
                                   draftApplication, formData>>
    /\ UNCHANGED <<accounts, isEmailScanned, scanVars, isMockMode, ops, edits, trashing,
                   engineVars, viewVars>>
    /\ PersistEffect

\* part_012:83-96: whether handleDeleteMessage(id) awaits the provider
DeleteCallsProvider(id) ==
    LET i == FindIndex(messages, id)
        k == IF i = 0 THEN 0
             ELSE IF \E j \in DOMAIN accounts : accounts[j].id = messages[i].accountId
                  THEN CHOOSE j \in DOMAIN accounts :
                          /\ accounts[j].id = messages[i].accountId
                          /\ \A h \in 1..(j - 1) : accounts[h].id # messages[i].accountId
                  ELSE 0
    IN  /\ k # 0
        /\ accounts[k].provider = "Gmail"
        /\ ~ isMockMode
        /\ ~ IsMockToken(accounts[k].accessToken)

\* InboundEmails.tsx:234-237 and part_012:83-102: the message in the viewer
\* is deleted; handleDeleteMessage runs to its await or, without one, to its
\* end
HandleDeleteMessage ==
    /\ Ui
    /\ \E i \in DOMAIN messages :
          LET id == messages[i].id IN
          /\ id \notin trashing
          /\ IF DeleteCallsProvider(id)
             THEN /\ trashing' = trashing \cup {id}
                  /\ UNCHANGED messages
             ELSE /\ messages' = SelectSeq(messages, LAMBDA msg : msg.id # id)
                  /\ UNCHANGED trashing
    /\ selectedMessageId' = NoSelection
    /\ ops < MaxOps /\ ops' = ops + 1
    /\ UNCHANGED <<accounts, isEmailScanned, scanVars, applications, isMockMode,
                   now, edits, isCreateModalOpen, parsingMessage, draftApplication,
                   formData, engineVars, viewVars>>
    /\ PersistEffect

\* part_012:92-102: trashGmailMessage settles, either way the message is
\* removed locally
TrashSettles ==
    /\ \E id \in trashing :
          /\ messages' = SelectSeq(messages, LAMBDA msg : msg.id # id)
          /\ trashing' = trashing \ {id}
    /\ UNCHANGED <<accounts, isEmailScanned, scanVars, applications, isMockMode, ops,
                   now, edits, flowVars, engineVars, viewVars>>
    /\ PersistEffect

\* the inbox view and the counters at the start
FlowIdle ==
    /\ now = 0 /\ edits = 0 /\ ops = 0 /\ trashing = {}
    /\ selectedMessageId = NoSelection /\ isCreateModalOpen = FALSE
    /\ parsingMessage = Absent /\ draftApplication = Absent
    /\ formData = InitialFormData

\* the component mounted in mock mode (part_012:21, 33-39), nothing stored
DeskMounted ==
    /\ applications = INITIAL_APPLICATIONS
    /\ isMockMode = TRUE
    /\ store = EmptyStore
    /\ FlowIdle

\* what an earlier real-mode session left in localStorage: one connected
\* account, one fetched message and the application created from it
SavedSession ==
    LET account == RealAccount(1, "jane@gmail.com")
        fetched == FetchedBatch(account, <<"a">>)
    IN  [applications |-> Item(<< App("app_gen_0", "Acme Corp", "Interview",
                                      RECRUITER_SCREEN) >>),
         messages     |-> Item(LinkMessage(fetched, fetched[1], "app_gen_0")),
         accounts     |-> Item(<<account>>)]

\* mounted in mock mode, with an earlier session stored
DeskInit ==
    /\ applications = INITIAL_APPLICATIONS
    /\ isMockMode = TRUE
    /\ store = SavedSession
    /\ FlowIdle

\* mock mode after a mailbox was connected and scanned: the synthetic
\* message and one fetched message that is not linked
AppsInit ==
    /\ accounts = MOCK_ACCOUNTS
                    \o << SyncAccountData(RealAccount(1, "jane@gmail.com")) >>
    /\ messages = Merge(MOCK_MESSAGES, FetchedBatch(accounts[2], <<"a">>))
    /\ isScanning = FALSE /\ isEmailScanned = TRUE
    /\ scanPc = "idle" /\ updatedAccounts = <<>> /\ scanIdx = 0
    /\ newRealMessages = <<>> /\ scanSnapshot = <<>>
    /\ nextAccountId = 1

\* the extraction engine between calls, with the build's key
AiConfigured ==
    /\ xPc = "off" /\ xOp = "none" /\ xArgs = Absent /\ xApiKey \in ApiKeys
    /\ xCalls = <<>> /\ xPath = {} /\ xOutcome = NoOutcome /\ xResult = Pending

\* real mode with one account, its two fetched messages and two
\* applications, one withdrawn and one rejected, as persisted
HandlersInit ==
    /\ applications = << App("app_gen_2", "Acme Corp", "Interview", "Withdrawn"),
                         App("app_1", "New Company", "New Role", "Rejected") >>
    /\ accounts = << RealAccount(1, "jane@gmail.com") >>
    /\ messages = FetchedBatch(accounts[1], <<"b", "a">>)
    /\ isMockMode = FALSE
    /\ store = [applications |-> Item(applications), messages |-> Item(messages),
                accounts |-> Item(accounts)]
    /\ isScanning = FALSE /\ isEmailScanned = FALSE
    /\ scanPc = "idle" /\ updatedAccounts = <<>> /\ scanIdx = 0
    /\ newRealMessages = <<>> /\ scanSnapshot = <<>>
    /\ nextAccountId = 1
    /\ FlowIdle

DeskIdle ==
    /\ applications = <<>>
    /\ isMockMode = TRUE
    /\ store = EmptyStore
    /\ now = 0 /\ edits = 0 /\ ops = 0 /\ trashing = {}
    /\ selectedMessageId = NoSelection /\ isCreateModalOpen = FALSE
    /\ parsingMessage = Absent /\ draftApplication = Absent
    /\ formData = InitialFormData

(***************************************************************************)
(* The reply editor of the message viewer (MessageViewer.tsx:29-56,        *)
(* 197-240) and App.handleReplyMessage (part_012:105-120).  The body of    *)
(* sendGmailReply is a call to the provider: it is a promise that either   *)
(* resolves or rejects.                                                    *)
(***************************************************************************)
ReplyBodies == {"", " ", "Thanks"}

\* part_012:106: accounts.find(a => a.id === message.accountId), as the index
\* of the first match or 0
FindAccount(accs, accountId) == FindIndex(accs, accountId)

\* InboundEmails.tsx:116-118, 222: the viewer is rendered for the selected
\* message while the collection holds it
ViewerShown == FindIndex(messages, selectedMessageId) # 0

\* InboundEmails.tsx:354: a message of the inbox list is opened; the viewer
\* mounts with its initial state
ViewerOpen ==
    /\ selectedMessageId = NoSelection
    /\ \E i \in DOMAIN messages : selectedMessageId' = messages[i].id
    /\ UNCHANGED <<appVars, applications, store, isMockMode, now, edits, ops,
                   trashing, isCreateModalOpen, parsingMessage, draftApplication,
                   formData, engineVars, viewVars>>

\* InboundEmails.tsx:225 and 232: back to the inbox; the viewer unmounts, its
\* state is discarded and the calls in flight settle without it
ViewerBack ==
    /\ selectedMessageId # NoSelection
    /\ selectedMessageId' = NoSelection
    /\ isReplyOpen' = FALSE /\ replyBody' = "" /\ isSendingReply' = FALSE
    /\ sendInFlight' = [k \in DOMAIN sendInFlight |->
                           [sendInFlight[k] EXCEPT !.mounted = FALSE]]
    /\ UNCHANGED <<sendCalls, replyAsks, replyReturned>>
    /\ UNCHANGED <<appVars, applications, store, isMockMode, now, edits, ops,
                   trashing, isCreateModalOpen, parsingMessage, draftApplication,
                   formData, engineVars, restViewVars>>

\* MessageViewer.tsx:118, 205 and 216: the Reply toggle, the X and Discard
ReplyToggle ==
    /\ ViewerShown
    /\ isReplyOpen' = ~ isReplyOpen
    /\ UNCHANGED <<replyBody, isSendingReply, sendInFlight, sendCalls, replyAsks,
                   replyReturned>>
    /\ UNCHANGED <<appVars, deskVars, engineVars, restViewVars>>

\* MessageViewer.tsx:212-213: the textarea
ReplyType ==
    /\ ViewerShown /\ isReplyOpen
    /\ \E b \in ReplyBodies \ {replyBody} : replyBody' = b
    /\ UNCHANGED <<isReplyOpen, isSendingReply, sendInFlight, sendCalls, replyAsks,
                   replyReturned>>
    /\ UNCHANGED <<appVars, deskVars, engineVars, restViewVars>>

\* what handleReplyMessage returned, and how its sendGmailReply call settled
\* ("none" when it made no call)
Returned(result, send) == [result |-> result, send |-> send]

\* part_012:105-113: handleReplyMessage up to its await. Without the owning
\* account it returns false, and handleSendReply's continuation
\* (MessageViewer.tsx:49-55) resets isSendingReply in the same task
HandleReplyMessage(message, body) ==
    LET k == FindAccount(accounts, message.accountId)
    IN  IF k = 0
        THEN /\ replyReturned' = Append(replyReturned, Returned(FALSE, "none"))
             /\ UNCHANGED <<isSendingReply, sendInFlight, sendCalls>>
        ELSE /\ sendCalls' = Append(sendCalls,
                                [accessToken |-> accounts[k].accessToken,
                                 body |-> body, messageId |-> message.id])
             /\ sendInFlight' = Append(sendInFlight, [mounted |-> TRUE])
             /\ isSendingReply' = TRUE
             /\ UNCHANGED replyReturned

\* MessageViewer.tsx:44-48 and 223-224: the Send Reply button, enabled while
\* no send of this viewer is in flight and the draft is not blank
HandleSendReply ==
    /\ ViewerShown /\ isReplyOpen
    /\ ~ isSendingReply /\ Trim(replyBody) # ""
    /\ Len(replyAsks) < MaxAsks
    /\ LET message == messages[FindIndex(messages, selectedMessageId)]
       IN  /\ replyAsks' = Append(replyAsks, message.id)
           /\ HandleReplyMessage(message, replyBody)
    /\ UNCHANGED <<isReplyOpen, replyBody>>
    /\ UNCHANGED <<appVars, deskVars, engineVars, restViewVars>>

RemoveAt(seq, k) == SubSeq(seq, 1, k - 1) \o SubSeq(seq, k + 1, Len(seq))

\* the catch of handleReplyMessage sends the reply once more
SendRejectedRetry(k) ==
    /\ sendCalls' = Append(sendCalls, sendCalls[Len(sendCalls)])
    /\ UNCHANGED <<sendInFlight, replyReturned, isSendingReply, isReplyOpen,
                   replyBody>>

\* part_012:115-119 and MessageViewer.tsx:48-55: sendGmailReply rejects;
\* handleReplyMessage alerts and returns false
SendRejected(k) ==
    /\ sendInFlight' = RemoveAt(sendInFlight, k)
    /\ replyReturned' = Append(replyReturned, Returned(FALSE, "rejected"))
    /\ isSendingReply' = IF sendInFlight[k].mounted THEN FALSE ELSE isSendingReply
    /\ UNCHANGED <<sendCalls, isReplyOpen, replyBody>>

\* part_012:113-114 and MessageViewer.tsx:48-55: sendGmailReply resolves;
\* handleReplyMessage returns true and the editor is cleared and closed
SendResolved(k) ==
    /\ sendInFlight' = RemoveAt(sendInFlight, k)
    /\ replyReturned' = Append(replyReturned, Returned(TRUE, "resolved"))
    /\ IF sendInFlight[k].mounted
       THEN isSendingReply' = FALSE /\ replyBody' = "" /\ isReplyOpen' = FALSE
       ELSE UNCHANGED <<isSendingReply, replyBody, isReplyOpen>>
    /\ UNCHANGED sendCalls

SendSettles ==
    /\ \E k \in DOMAIN sendInFlight : SendResolved(k) \/ SendRejected(k)
    /\ UNCHANGED replyAsks
    /\ UNCHANGED <<appVars, deskVars, engineVars, restViewVars>>

\* part_012:218-225: the accounts view replaces the inbox view, so an account
\* is removed while no viewer is mounted
RemoveAccountFromManager ==
    /\ selectedMessageId = NoSelection
    /\ HandleRemoveAccount

(***************************************************************************)
(* A second invocation of handleScanMessages (part_012:134-183) made while *)
(* the first is in flight.  The buttons that call the handler are disabled *)
(* while isScanning; the handler itself has no guard, and here it is       *)
(* called directly.  The second invocation has its own closure, scanB, and *)
(* shares the component state with the first.                              *)
(***************************************************************************)
\* part_012:134-138
ScanBStart ==
    /\ scanB.pc = "idle" /\ scanPc # "idle"
    /\ isScanning' = TRUE
    /\ scanB' = [IdleScan EXCEPT !.pc = "sync", !.snapshot = accounts]
    /\ UNCHANGED <<messages, accounts, isEmailScanned, scanPc, updatedAccounts,
                   scanIdx, newRealMessages, scanSnapshot, nextAccountId>>
    /\ UNCHANGED <<mergeVars, fetchVars, parseVars, aiVars, deskVars>>
    /\ UNCHANGED <<replyVars, histVars, firstMerged, jdVars, toggleVars>>

\* part_012:141-152
ScanBSynced ==
    /\ scanB.pc = "sync"
    /\ LET synced == [i \in 1..Len(scanB.snapshot) |-> SyncAccountData(scanB.snapshot[i])]
           idx    == NextFetchIdx(synced, 1)
       IN  /\ accounts' = synced
           /\ scanB' = [pc |-> IF idx > Len(synced) THEN "timer" ELSE "fetch",
                        snapshot |-> <<>>, updated |-> synced, idx |-> idx,
                        fresh |-> <<>>]
    /\ UNCHANGED <<messages, isScanning, isEmailScanned, scanPc, updatedAccounts,
                   scanIdx, newRealMessages, scanSnapshot, nextAccountId>>
    /\ UNCHANGED <<mergeVars, fetchVars, parseVars, aiVars>>
    /\ UNCHANGED <<replyVars, histVars, firstMerged, jdVars, toggleVars>>
    /\ UNCHANGED <<applications, deskRest>>
    /\ PersistEffect

\* part_012:149-152
ScanBFetchResolves ==
    /\ scanB.pc = "fetch"
    /\ LET acc == scanB.updated[scanB.idx]
           idx == NextFetchIdx(scanB.updated, scanB.idx + 1)
       IN  \E q \in DistinctSeqs(MailboxIds(acc.email), MaxListing) :
               scanB' = [scanB EXCEPT
                            !.fresh = scanB.fresh \o FetchedBatch(acc, q),
                            !.idx = idx,
                            !.pc = IF idx > Len(scanB.updated) THEN "timer" ELSE "fetch"]
    /\ UNCHANGED <<appVars, mergeVars, fetchVars, parseVars, aiVars, deskVars>>
    /\ UNCHANGED <<replyVars, histVars, firstMerged, jdVars, toggleVars>>

\* part_012:170-182
ScanBFetchRejects ==
    /\ scanB.pc = "fetch"
    /\ isScanning' = FALSE
    /\ scanB' = IdleScan
    /\ firstMerged' = IF firstMerged.by = "A" THEN NoMerge ELSE firstMerged
    /\ UNCHANGED <<messages, accounts, isEmailScanned, scanPc, updatedAccounts,
                   scanIdx, newRealMessages, scanSnapshot, nextAccountId>>
    /\ UNCHANGED <<mergeVars, fetchVars, parseVars, aiVars, deskVars>>
    /\ UNCHANGED <<replyVars, histVars, jdVars, toggleVars>>

\* part_012:154-169
ScanBTimerFires ==
    /\ scanB.pc = "timer"
    /\ isScanning' = FALSE
    /\ isEmailScanned' = TRUE
    /\ messages' = Merge(messages, scanB.fresh)
    /\ scanB' = IdleScan
    /\ firstMerged' = IF scanPc = "idle" THEN NoMerge
                      ELSE [by |-> "B", ids |-> IdsOf(scanB.fresh)]
    /\ UNCHANGED <<accounts, scanPc, updatedAccounts, scanIdx, newRealMessages,
                   scanSnapshot, nextAccountId>>
    /\ UNCHANGED <<mergeVars, fetchVars, parseVars, aiVars>>
    /\ UNCHANGED <<replyVars, histVars, jdVars, toggleVars>>
    /\ UNCHANGED <<applications, deskRest>>
    /\ PersistEffect

\* part_012:70-72 and 206: a fetched message that is not linked yet is
\* linked to an application
LinkFetched ==
    /\ \E i \in DOMAIN messages :
          /\ messages[i].linkedApplicationId = NoLink
          /\ messages[i].id \in MailboxIds("joe@gmail.com")
          /\ HandleLinkMessage(messages[i], "app_1")
    /\ UNCHANGED <<edits, ops>>
    /\ PersistEffect

\* the component with the mailbox joe@gmail.com connected once, or twice,
\* and one message left in the collection
OverlapInit ==
    /\ messages = SubSeq(MOCK_MESSAGES, 1, 1)
    /\ \E n \in 1..2 :
          /\ accounts = MOCK_ACCOUNTS \o
                 [i \in 1..n |-> RealAccount(i, "joe@gmail.com")]
          /\ nextAccountId = n
    /\ isScanning = FALSE /\ isEmailScanned = TRUE
    /\ scanPc = "idle" /\ updatedAccounts = <<>> /\ scanIdx = 0
    /\ newRealMessages = <<>> /\ scanSnapshot = <<>>

\* real mode (part_012:41-49) with a synthetic account and a mailbox
\* connected, nothing fetched and nothing scanned yet
RealSessionInit ==
    /\ messages = <<>>
    /\ accounts = << MockAccount(1), RealAccount(2, "jane@gmail.com") >>
    /\ isScanning = FALSE /\ isEmailScanned = FALSE
    /\ scanPc = "idle" /\ updatedAccounts = <<>> /\ scanIdx = 0
    /\ newRealMessages = <<>> /\ scanSnapshot = <<>>
    /\ nextAccountId = 2
    /\ applications = <<>>
    /\ isMockMode = FALSE
    /\ store = [applications |-> Item(applications), messages |-> Item(messages),
                accounts |-> Item(accounts)]
    /\ FlowIdle

(***************************************************************************)
(* ApplicationManager's job-description analysis (part_003:60-77).  Here   *)
(* an application also carries its jobDescription, notes (each note by its *)
(* content), aiSummary and aiSkills.  analyzeJobDescription is a call that *)
(* resolves with a summary and skills, or rejects.                         *)
(***************************************************************************)
JdApp(id, companyName, roleTitle, status, jobDescription, notes, aiSkills) ==
    [id |-> id, companyName |-> companyName, roleTitle |-> roleTitle,
     status |-> status, jobDescription |-> jobDescription, notes |-> notes,
     aiSummary |-> Absent, aiSkills |-> aiSkills]

\* the first two of INITIAL_APPLICATIONS (part_010:22-50)
JdApplications ==
    << JdApp("1", "TechCorp", "Senior Frontend Engineer", "Onsite",
             Str("We are looking for a Senior Frontend Engineer"),
             << "Great chat with hiring manager" >>,
             Arr(<< "React", "TypeScript", "Performance Optimization" >>)),
       JdApp("2", "StartupInc", "Full Stack Developer", "Technical Phone Screen",
             Absent, <<>>, Absent) >>

JdResults == {[summary |-> "Frontend role, React heavy", skills |-> << "React" >>]}
NoteTexts == {"Call back Monday"}

\* part_003:39-48: handleAddNote(text) for the selected application
HandleAddNote ==
    /\ Ui
    /\ \E k \in DOMAIN applications, text \in NoteTexts :
          /\ Len(applications[k].notes) < MaxNotes + 1
          /\ applications' = UpdateApplication(applications,
                 [applications[k] EXCEPT !.notes = Append(@, text)])
    /\ UNCHANGED <<appVars, isMockMode, ops, now, edits, trashing, flowVars,
                   engineVars, viewVars>>
    /\ PersistEffect

\* part_003:60-65 and 380-381: the Analyze button of the selected
\* application, up to the await
HandleAnalyzeJD ==
    /\ Ui
    /\ ~ isAnalyzing
    /\ jdInFlight = NoAnalysis
    /\ \E k \in DOMAIN applications :
          /\ Truthy(applications[k].jobDescription)
          /\ jdInFlight' = applications[k]
    /\ isAnalyzing' = TRUE
    /\ UNCHANGED <<appVars, deskVars, engineVars, replyVars, histVars, overlapVars, toggleVars>>

\* part_003:66-70 with part_012:62-64: { ...selectedApp, aiSummary, aiSkills }
\* replaces the application with the captured one's id
Analyzed(prev, selectedApp, result) ==
    UpdateApplication(prev, [selectedApp EXCEPT !.aiSummary = Str(result.summary),
                                                !.aiSkills = Arr(result.skills)])

\* part_003:65-76: the call resolved
AnalyzeJDResolves ==
    /\ jdInFlight # NoAnalysis
    /\ \E result \in JdResults :
          applications' = Analyzed(applications, jdInFlight, result)
    /\ isAnalyzing' = FALSE
    /\ jdInFlight' = NoAnalysis
    /\ UNCHANGED <<appVars, isMockMode, ops, now, edits, trashing, flowVars,
                   engineVars, replyVars, histVars, overlapVars, toggleVars>>
    /\ PersistEffect

\* part_003:71-76: the call rejected
AnalyzeJDRejects ==
    /\ jdInFlight # NoAnalysis
    /\ isAnalyzing' = FALSE
    /\ jdInFlight' = NoAnalysis
    /\ UNCHANGED <<appVars, deskVars, engineVars, replyVars, histVars, overlapVars, toggleVars>>

\* the component mounted in mock mode with the two applications
JdInit ==
    /\ applications = JdApplications
    /\ isMockMode = TRUE
    /\ store = EmptyStore
    /\ FlowIdle

(***************************************************************************)
(* The mode switch render by render (part_012:33-60, 249).  The render     *)
(* after setIsMockMode still has the collections of the old mode; its two  *)
(* effects run in their order, the load effect queueing the new            *)
(* collections and the persist effect writing the ones of this render; the *)
(* next render has the loaded collections, and its persist effect runs     *)
(* again because they changed.                                             *)
(***************************************************************************)
\* part_012:249: setIsMockMode(!isMockMode)
ToggleClick ==
    /\ Ui
    /\ effPc = "idle"
    /\ ops < MaxOps /\ ops' = ops + 1
    /\ isMockMode' = ~ isMockMode
    /\ effPc' = "effects"
    /\ UNCHANGED <<appVars, applications, store, now, edits, trashing, flowVars,
                   engineVars, replyVars, histVars, overlapVars, jdVars,
                   pendingLoad>>

\* what the load effect passes to the setters: part_012:34-50
Loaded ==
    IF isMockMode
    THEN [applications |-> INITIAL_APPLICATIONS, messages |-> MOCK_MESSAGES,
          accounts |-> MOCK_ACCOUNTS, isEmailScanned |-> TRUE]
    ELSE [applications |-> LoadItem(store.applications),
          messages     |-> LoadItem(store.messages),
          accounts     |-> LoadItem(store.accounts),
          isEmailScanned |-> FALSE]

\* part_012:33-60: the effects of the render that has the new mode and the
\* old collections: the load effect (33-51), then the persist effect (54-60)
CommitEffects ==
    /\ effPc = "effects"
    /\ pendingLoad' = Loaded
    /\ store' = IF isMockMode THEN store
               ELSE [applications |-> Item(applications),
                     messages     |-> Item(messages),
                     accounts     |-> Item(accounts)]
    /\ effPc' = "render"
    /\ UNCHANGED <<appVars, applications, isMockMode, deskRest, engineVars,
                   replyVars, histVars, overlapVars, jdVars>>

\* the render with the queued collections, and its persist effect
Rerender ==
    /\ effPc = "render"
    /\ applications' = pendingLoad.applications
    /\ messages' = pendingLoad.messages
    /\ accounts' = pendingLoad.accounts
    /\ isEmailScanned' = pendingLoad.isEmailScanned
    /\ effPc' = "idle"
    /\ pendingLoad' = NoLoad
    /\ UNCHANGED <<scanVars, deskRest, engineVars, replyVars, histVars,
                   overlapVars, jdVars>>
    /\ PersistEffect

\* part_003:76-91 and 283-289 between mode switches
CreateSettled == effPc = "idle" /\ HandleCreateNew
StatusChangeSettled == effPc = "idle" /\ HandleStatusChangeCounted

(***************************************************************************)
(* Specifications.                                                         *)
(***************************************************************************)
ReplyIdle ==
    /\ isReplyOpen = FALSE /\ replyBody = "" /\ isSendingReply = FALSE
    /\ sendInFlight = <<>> /\ sendCalls = <<>> /\ replyAsks = <<>>
    /\ replyReturned = <<>>

OverlapIdle == scanB = IdleScan /\ firstMerged = NoMerge

JdIdle == isAnalyzing = FALSE /\ jdInFlight = NoAnalysis

ToggleIdle == effPc = "idle" /\ pendingLoad = NoLoad

ViewIdle == ReplyIdle /\ removedInScan = {} /\ OverlapIdle /\ JdIdle /\ ToggleIdle

AppIdle ==
    /\ messages = <<>> /\ accounts = <<>>
    /\ isScanning = FALSE /\ isEmailScanned = FALSE
    /\ scanPc = "idle" /\ updatedAccounts = <<>> /\ scanIdx = 0
    /\ newRealMessages = <<>> /\ scanSnapshot = <<>>
    /\ nextAccountId = 0

MergeIdle ==
    /\ mA = <<>> /\ mB = <<>> /\ mOnce = <<>> /\ mTwice = <<>> /\ mPc = "off"

Init == AppInit /\ MergeIdle /\ FetchIdle /\ ParseIdle /\ AiIdle /\ DeskMounted /\ ViewIdle
Next ==
    \/ HandleAddAccount
    \/ HandleRemoveAccount
    \/ ScanStart
    \/ ScanSynced
    \/ ScanFetchResolves
    \/ ScanFetchRejects
    \/ ScanTimerFires
Spec == Init /\ [][Next]_vars

InitFetch == FetchInit /\ AppIdle /\ MergeIdle /\ ParseIdle /\ AiIdle /\ DeskIdle /\ ViewIdle
NextFetch ==
    \/ FetchStart
    \/ FetchListingThrows
    \/ FetchListingFails
    \/ FetchListingOk
    \/ FetchDetailSettles
    \/ FetchJoin
SpecFetch == InitFetch /\ [][NextFetch]_vars

InitMerge == MergeInit /\ AppIdle /\ FetchIdle /\ ParseIdle /\ AiIdle /\ DeskIdle /\ ViewIdle
NextMerge == MergeOnce \/ MergeAgain
SpecMerge == InitMerge /\ [][NextMerge]_vars

InitParse == ParseInit /\ AppIdle /\ MergeIdle /\ FetchIdle /\ AiIdle /\ DeskIdle /\ ViewIdle
NextParse == ParseCall
SpecParse == InitParse /\ [][NextParse]_vars

InitScanFetch == ScanFetchInit /\ MergeIdle /\ FetchIdle /\ ParseIdle /\ AiIdle /\ DeskMounted /\ ViewIdle
NextScanFetch ==
    \/ ScanStartStored
    \/ ScanSynced
    \/ ScanFetchCalls
    \/ FetchStart
    \/ FetchListingThrows
    \/ FetchListingFails
    \/ FetchListingOk
    \/ FetchDetailSettles
    \/ FetchJoin
    \/ ScanFetchReturned
    \/ ScanFetchThrew
    \/ ScanTimerFires
SpecScanFetch == InitScanFetch /\ [][NextScanFetch]_vars

InitDesk == AppInit /\ DeskInit /\ AiIdle /\ MergeIdle /\ FetchIdle /\ ParseIdle /\ ViewIdle
NextDesk ==
    \/ ToggleMockMode
    \/ LinkExisting
    \/ HandleCreateApplicationClick
    \/ ExtractionSettles
    \/ ModalClose
    \/ HandleFinalizeCreateApplication
    \/ HandleDeleteMessage
    \/ TrashSettles
    \/ HandleRemoveAccount
    \/ ScanStart
    \/ ScanSynced
    \/ ScanFetchResolves
    \/ ScanFetchRejects
    \/ ScanTimerFires
SpecDesk == InitDesk /\ [][NextDesk]_vars

InitApps == AppsInit /\ DeskMounted /\ AiConfigured /\ MergeIdle /\ FetchIdle /\ ParseIdle /\ ViewIdle
NextApps ==
    \/ HandleCreateNew
    \/ HandleStatusChangeCounted
    \/ HandleCreateApplicationClick
    \/ ExtractionSettles
    \/ FormSetStatus
    \/ ModalClose
    \/ HandleFinalizeCreateApplication
SpecApps == InitApps /\ [][NextApps]_vars

InitHandlers == HandlersInit /\ AiIdle /\ MergeIdle /\ FetchIdle /\ ParseIdle /\ ViewIdle
NextHandlers ==
    \/ HandleLinkMessageAny
    \/ HandleStatusChange
SpecHandlers == InitHandlers /\ [][NextHandlers]_vars

InitAi == AiInit /\ AppIdle /\ MergeIdle /\ FetchIdle /\ ParseIdle /\ DeskIdle /\ ViewIdle
NextAi ==
    \/ ExtractStart
    \/ ExtractCallSettles
    \/ AnalyzeStart
    \/ AnalyzeCallSettles
SpecAi == InitAi /\ [][NextAi]_vars

InitReply == AppsInit /\ DeskMounted /\ AiIdle /\ MergeIdle /\ FetchIdle /\ ParseIdle /\ ViewIdle
NextReply ==
    \/ ViewerOpen
    \/ ViewerBack
    \/ ReplyToggle
    \/ ReplyType
    \/ HandleSendReply
    \/ SendSettles
    \/ RemoveAccountFromManager
    \/ ScanStart
    \/ ScanSynced
    \/ ScanFetchResolves
    \/ ScanFetchRejects
    \/ ScanTimerFires
SpecReply == InitReply /\ [][NextReply]_vars

InitFallback == FallbackInit /\ AppIdle /\ MergeIdle /\ FetchIdle /\ ParseIdle /\ DeskIdle /\ ViewIdle
NextFallback == ExtractStart
SpecFallback == InitFallback /\ [][NextFallback]_vars

InitOverlap == OverlapInit /\ DeskMounted /\ AiIdle /\ MergeIdle /\ FetchIdle /\ ParseIdle /\ ViewIdle
NextOverlap ==
    \/ ScanStartStored
    \/ ScanSynced
    \/ ScanFetchResolves
    \/ ScanFetchRejects
    \/ ScanTimerFires
    \/ ScanBStart
    \/ ScanBSynced
    \/ ScanBFetchResolves
    \/ ScanBFetchRejects
    \/ ScanBTimerFires
    \/ LinkFetched
SpecOverlap == InitOverlap /\ [][NextOverlap]_vars

\* The scan with every awaited operation eventually completing or failing:
\* the syncs resolve after their 1500 ms timers (authService syncAccountData),
\* the listing request and each detail request are answered or fail, the
\* continuations after an await run, and the 1500 ms timer of the scan fires.
\* Starting a scan is the user's step and has no fairness.
InitScanFair == RealSessionInit /\ MergeIdle /\ FetchIdle /\ ParseIdle /\ AiIdle /\ ViewIdle
ScanListingSettles == FetchListingThrows \/ FetchListingFails \/ FetchListingOk
ScanFairness ==
    /\ WF_vars(ScanSynced)
    /\ WF_vars(ScanFetchCalls)
    /\ WF_vars(FetchStart)
    /\ WF_vars(ScanListingSettles)
    /\ WF_vars(FetchDetailSettles)
    /\ WF_vars(FetchJoin)
    /\ WF_vars(ScanFetchReturned)
    /\ WF_vars(ScanFetchThrew)
    /\ WF_vars(ScanTimerFires)
SpecScanFair == InitScanFair /\ [][NextScanFetch]_vars /\ ScanFairness

InitAnalyze == AppInit /\ JdInit /\ AiIdle /\ MergeIdle /\ FetchIdle /\ ParseIdle
               /\ ViewIdle
NextAnalyze ==
    \/ HandleStatusChange
    \/ HandleAddNote
    \/ HandleAnalyzeJD
    \/ AnalyzeJDResolves
    \/ AnalyzeJDRejects
SpecAnalyze == InitAnalyze /\ [][NextAnalyze]_vars

InitToggle == AppInit /\ DeskInit /\ AiIdle /\ MergeIdle /\ FetchIdle /\ ParseIdle /\ ViewIdle
NextToggle ==
    \/ ToggleClick
    \/ CommitEffects
    \/ Rerender
    \/ CreateSettled
    \/ StatusChangeSettled
SpecToggle == InitToggle /\ [][NextToggle]_vars

(***************************************************************************)
(* Properties.                                                             *)
(***************************************************************************)
Range(q) == {q[i] : i \in DOMAIN q}
SortedDesc(q) ==
    \A i \in 1..(Len(q) - 1) :
        DateGetTime(q[i].receivedAt) >= DateGetTime(q[i + 1].receivedAt)
CountId(q, id) == Cardinality({i \in DOMAIN q : q[i].id = id})
ExistingPreferred(A, B, M) ==
    /\ \A i \in DOMAIN B :
          B[i].id \in Ids(A) =>
              /\ CountId(M, B[i].id) = 1
              /\ \A j \in DOMAIN M : M[j].id = B[i].id => M[j] \in Range(A)
    /\ \A i \in DOMAIN A : A[i] \in Range(M)
    /\ Len(M) = Len(A) + Cardinality({i \in DOMAIN B : B[i].id \notin Ids(A)})

\* C1: merging the same fetch result a second time returns exactly the
\* collection the first merge returned, entry for entry and in the same order.
C1_MergeIdempotent == mPc = "twice" => mTwice = mOnce

\* the first merge added entries and dropped a fetched one whose id existed
C1_Witness ==
    /\ mPc = "twice" /\ mTwice = mOnce
    /\ Len(mOnce) > Len(mA)
    /\ \E i \in DOMAIN mB : mB[i].id \in Ids(mA)

\* the merge of the pure function keeps the existing entry when the existing
\* collection holds each id once
MergePrefersExistingOnUniqueIds ==
    (mPc # "start" /\ \A i, j \in DOMAIN mA : mA[i].id = mA[j].id => i = j)
        => ExistingPreferred(mA, mB, mOnce)

\* C2: in the merge of a scan, a fetched entry whose id already exists leaves
\* exactly one entry with that id, the existing one unchanged; every existing
\* entry is kept and the result has one more entry per fetched entry whose
\* id did not exist.
C2_ExistingEntryPreferred ==
    [][scanPc = "timer" /\ scanPc' = "idle"
          => ExistingPreferred(messages, newRealMessages, messages')]_vars

\* C3: no two stored messages share an id.
C3_UniqueMessageIds ==
    \A i, j \in DOMAIN messages : messages[i].id = messages[j].id => i = j

\* C4: after a merge the whole collection is ordered by receivedAt, latest
\* first.
C4_MergedSortedDesc == mPc # "start" => SortedDesc(mOnce)

\* neither input was ordered, and existing and new entries were interleaved
C4_Witness ==
    /\ mPc = "once"
    /\ ~ SortedDesc(mA) /\ ~ SortedDesc(mB)
    /\ Len(mOnce) >= 4
    /\ SortedDesc(mOnce)

ItemFailed(i) == fServed[i] # GoodAnswer(fListing[i])
GoodItems == SelectSeq(fListing, LAMBDA id : \E i \in DOMAIN fListing :
                          fListing[i] = id /\ ~ ItemFailed(i))
\* C5: with k of the N items failing, the call resolves with the N - k
\* messages of the other ids, in listing order, each what its own payload
\* normalizes to; no exception escapes.
C5_BatchResilience ==
    (fPc = "done" /\ fListing # <<>>) =>
        /\ fResult.kind = "resolved"
        /\ Len(fResult.value) =
              Len(fListing) - Cardinality({i \in DOMAIN fListing : ItemFailed(i)})
        /\ [i \in DOMAIN fResult.value |-> fResult.value[i].id] = GoodItems
        /\ \A i \in DOMAIN fResult.value :
              /\ fResult.value[i].accountId = fArgs.accountId
              /\ fResult.value[i].receivedAt =
                    InternalDateToISO(InternalDateOf(fResult.value[i].id)).value

\* three candidates, the middle one's request threw, the other two arrived
C5_Witness ==
    /\ fPc = "done" /\ Len(fListing) = 3
    /\ fServed[2].net = "throws"
    /\ ~ ItemFailed(1) /\ ~ ItemFailed(3)
    /\ fResult.kind = "resolved" /\ Len(fResult.value) = 2

HasMessage(resp) == resp.body.js = "object"
\* C6: a failed listing is classified by its status: every 401 is the
\* expired-token error whatever its body, a 403 about permission or scope
\* the permission error, a 403 about the API not being enabled the
\* not-enabled error.
C6_ListingErrorKinds ==
    (fPc = "done" /\ ~ fListResp.ok) =>
        /\ fResult.kind = "rejected"
        /\ fListResp.status = 401 => fResult.error = Error(MsgExpired)
        /\ (fListResp.status = 403 /\ HasMessage(fListResp)
              /\ (Includes(ProviderMessage(fListResp.body), "Insufficient Permission")
                  \/ Includes(ProviderMessage(fListResp.body), "scope")))
           => fResult.error = Error(MsgPermission)
        /\ (fListResp.status = 403 /\ HasMessage(fListResp)
              /\ Includes(ProviderMessage(fListResp.body), "not enabled"))
           => fResult.error = Error(MsgNotEnabled)

\* C7: a call with a token of prefix "mock_" issues no request and resolves
\* with the empty sequence.
C7_MockTokenNoNetwork ==
    StartsWith(fArgs.accessToken, "mock_") =>
        /\ fRequests = <<>>
        /\ fPc \in {"start", "done"}
        /\ fPc = "done" => (fResult.kind = "resolved" /\ fResult.value = <<>>)

C7_Witness ==
    /\ fPc = "done" /\ fArgs.accessToken = "mock_token_1"
    /\ fArgs.timeWindow = "3m"
    /\ fRequests = <<>> /\ fResult.kind = "resolved" /\ fResult.value = <<>>

\* C8: the normalizer never throws: it returns a message or null.
C8_NormalizerNeverThrows == pOut.kind \in {"pending", "value", "null"}

CredentialConfigured == xApiKey.js = "string" /\ xApiKey.v # ""
AiCallFailed ==
    \/ xOutcome.kind = "rejected"
    \/ xOutcome.kind = "response"
       /\ (xOutcome.text.js # "string" \/ xOutcome.text.v = ""
           \/ xOutcome.json.js = "not json")
\* C9: with a credential configured, extractJobDetailsFromEmail never
\* rejects, and when the model call fails (it rejects, its response has no
\* text, or its text is not JSON) the function resolves with exactly what
\* the regex fallback extractor returns for the same body and subject.
C9_ExtractionFallsBack ==
    (xOp = "extract" /\ xPc = "done" /\ CredentialConfigured) =>
        /\ xResult.kind = "resolved"
        /\ AiCallFailed =>
               xResult.value = FallbackExtraction(xArgs.emailText, xArgs.subject)
C9_Witness ==
    /\ xOp = "extract" /\ xPc = "done" /\ CredentialConfigured
    /\ xOutcome.kind = "response" /\ xOutcome.json.js = "not json"
    /\ xOutcome.text.js = "string" /\ xOutcome.text.v # ""
    /\ xResult.kind = "resolved"
    /\ xResult.value.companyName = "Stripe"
    /\ xResult.value.roleTitle = "Backend Engineer"

\* C10: without a credential neither function issues a model call:
\* extraction resolves with the fallback extractor's result, classification
\* with its fixed result, and no invocation takes both the model path and
\* the no-credential path.
C10_NoCredentialNoModelCall ==
    /\ ~ ({"model", "no credential"} \subseteq xPath)
    /\ (xPc # "off" /\ ~ CredentialConfigured) =>
           /\ xCalls = <<>>
           /\ "model" \notin xPath
           /\ xPc = "done" =>
                  xResult = IF xOp = "extract"
                            THEN Resolved(FallbackExtraction(xArgs.emailText,
                                                             xArgs.subject))
                            ELSE Resolved(AnalyzeNoKey)
C10_Witness ==
    /\ xPc = "done" /\ xOp = "extract" /\ xApiKey = Str("")
    /\ xCalls = <<>> /\ xPath = {"no credential"}
    /\ xResult.kind = "resolved" /\ xResult.value.companyName = "Google"

AiPathReturned ==
    /\ CredentialConfigured /\ xOutcome.kind = "response"
    /\ xOutcome.text.js = "string" /\ xOutcome.text.v # ""
    /\ xOutcome.json.js \notin {"not json", "null"}
GivenStatus == Get(xOutcome.json, "status")
\* C11: the status extractJobDetailsFromEmail returns is one of the eight
\* enum values: on the AI path a status that is absent or no enum value
\* becomes 'Recruiter Screen' and a valid one is kept, and on the fallback
\* path the status is 'Recruiter Screen' for every subject and body.
C11_ExtractedStatusInEnum ==
    /\ (xOp = "extract" /\ xPc = "done") =>
          /\ xResult.kind = "resolved"
          /\ xResult.value.status \in ApplicationStatus
          /\ AiPathReturned =>
                xResult.value.status =
                    IF GivenStatus.js = "string" /\ GivenStatus.v \in ApplicationStatus
                    THEN GivenStatus.v ELSE "Recruiter Screen"
          /\ ~ AiPathReturned => xResult.value.status = "Recruiter Screen"
    /\ xPc = "start" =>
          \A body \in EmailTexts, subject \in Subjects :
              FallbackExtraction(body, subject).status = "Recruiter Screen"
C11_Witness ==
    /\ xOp = "extract" /\ xPc = "done" /\ AiPathReturned
    /\ GivenStatus = Str("Interviewing")
    /\ xResult.kind = "resolved" /\ xResult.value.status = "Recruiter Screen"

\* the parts of a tree, parents before children, siblings left to right
RECURSIVE PreOrder(_)
PreOrder(parts) ==
    IF Nullish(parts) THEN <<>>
    ELSE IF parts.v = <<>> THEN <<>>
    ELSE <<Head(parts.v)>> \o PreOrder(Head(parts.v).parts)
                           \o PreOrder(Arr(Tail(parts.v)))
OfType(parts, mimeType) == SelectSeq(PreOrder(parts), LAMBDA p : p.mimeType = mimeType)
\* the decoded content of a part; a part without body data has none
Decoded(part) ==
    IF Nullish(part.body) THEN ""
    ELSE IF Nullish(part.body.data) THEN ""
    ELSE IF part.body.data.v = "" THEN ""
    ELSE Atob(Base64UrlToBase64(part.body.data.v)).value
ExpectedBody(data) ==
    LET html  == OfType(data.payload.parts, "text/html")
        plain == OfType(data.payload.parts, "text/plain")
    IN  IF html # <<>> THEN Decoded(html[1])
        ELSE IF plain # <<>> THEN Decoded(plain[1])
        ELSE data.snippet
\* C12: the body of a normalized message is the decoded content of the first
\* text/html part of the tree in pre-order; without one, of the first
\* text/plain part; the snippet only when the tree has neither.
C12_BodyPrecedence ==
    pOut.kind = "value" => pOut.value.fullBody = ExpectedBody(pData)

\* the precedence holds whenever the part the search finds carries body data
ChosenPartHasData(data) ==
    LET html  == OfType(data.payload.parts, "text/html")
        plain == OfType(data.payload.parts, "text/plain")
    IN  IF html # <<>> THEN Decoded(html[1]) # ""
        ELSE IF plain # <<>> THEN Decoded(plain[1]) # ""
        ELSE TRUE
BodyPrecedenceWhenDataPresent ==
    (pOut.kind = "value" /\ ChosenPartHasData(pData))
        => pOut.value.fullBody = ExpectedBody(pData)

\* the From header of the payload as the provider sent it
RawFrom(data) == GetHeader(data.payload.headers.v, "From").value
HasBracket(from) == \E i \in 1..Len(from) : CharAt(from, i) \in {"<", ">"}
\* 'Name <addr>': one "<", one ">" that ends the text, and a name before
FirstIndex(from, c) ==
    CHOOSE i \in 1..Len(from) :
        CharAt(from, i) = c /\ \A j \in 1..(i - 1) : CharAt(from, j) # c
CountChar(from, c) == Cardinality({i \in 1..Len(from) : CharAt(from, i) = c})
NamePart(from) == StripQuotes(Trim(SubSeq(from, 1, FirstIndex(from, "<") - 1)))
AddrPart(from) == SubSeq(from, FirstIndex(from, "<") + 1, Len(from) - 1)
BracketForm(from) ==
    /\ CountChar(from, "<") = 1 /\ CountChar(from, ">") = 1
    /\ CharAt(from, Len(from)) = ">"
NamedForm(from) == BracketForm(from) /\ NamePart(from) # ""

SaysNotEnabled(m) == Includes(m, "not enabled") \/ Includes(m, "it is disabled")
SessionCase(resp) ==
    \/ resp.status = 401
    \/ /\ resp.status = 403 /\ HasMessage(resp)
       /\ LET m == ProviderMessage(resp.body)
          IN  \/ Includes(m, "Insufficient Permission") \/ Includes(m, "scope")
              \/ SaysNotEnabled(m)
\* C14: a listing that fails with a non-OK status outside the three session
\* cases makes the call reject with a generic failure, none of the three
\* session errors, whose message contains the provider's error message.
C14_GenericListingFailure ==
    (fPc = "done" /\ ~ fListResp.ok /\ ~ SessionCase(fListResp)) =>
        /\ fResult.kind = "rejected"
        /\ fResult.error.name = "Error"
        /\ fResult.error.message \notin {MsgPermission, MsgNotEnabled, MsgExpired}
        /\ HasMessage(fListResp) =>
               Includes(fResult.error.message, ProviderMessage(fListResp.body))

\* outside the session cases and the code's "project" test, a body that is a
\* JSON object yields the generic failure with the provider's message
GenericFailureForObjectBodies ==
    (fPc = "done" /\ ~ fListResp.ok /\ ~ SessionCase(fListResp)
       /\ HasMessage(fListResp)
       /\ ~ (fListResp.status = 403
             /\ Includes(ProviderMessage(fListResp.body), "project"))) =>
        /\ fResult.kind = "rejected"
        /\ fResult.error =
              Error("Failed to list messages: " \o ProviderMessage(fListResp.body))

SessionErrors == {Error(MsgExpired), Error(MsgPermission), Error(MsgNotEnabled)}
\* C15: when an account's listing fails with a session error the scan ends
\* there: that account saw exactly one request, its listing, and no detail
\* request; the scan leaves isScanning false, drops what it had fetched and
\* sets no timer; and no step of a scan before its merge changes the stored
\* messages.
C15_SessionErrorEndsScan ==
    [][ /\ scanPc # "timer" => messages' = messages
        /\ (fPc = "done" /\ fResult.kind = "rejected"
              /\ fResult.error \in SessionErrors /\ fPc' = "off") =>
               /\ fRequests = <<ListRequest(fArgs)>>
               /\ isScanning' = FALSE
               /\ scanPc' = "idle"
               /\ newRealMessages' = <<>>
               /\ messages' = messages ]_vars
\* the second real account's listing answered 401 after the first account's
\* fetch had resolved; the scan is over and the messages are the initial ones
C15_Witness ==
    /\ fPc = "off" /\ fResult = Rejected(Error(MsgExpired))
    /\ fArgs.accountId = "acc_gmail_2"
    /\ fRequests = <<ListRequest(fArgs)>>
    /\ scanPc = "idle" /\ ~ isScanning
    /\ messages = MOCK_MESSAGES

LinkedTo(m, appId) == [m EXCEPT !.linkedApplicationId = appId]
\* C16: a step that changes the stored messages is a link: for some message
\* id and application id, exactly the stored messages with that id get
\* linkedApplicationId set to the application id, with every other field and
\* every other message as before, and the applications and accounts are as
\* before; and the link is made for any application id, present in the
\* collection or not.
C16_LinkFrameEffect ==
    [][ /\ \A i \in DOMAIN messages, appId \in LinkTargets :
              ENABLED (HandleLinkMessageAny
                         /\ messages'[i].linkedApplicationId = appId)
        /\ messages' # messages =>
              /\ \E i \in DOMAIN messages, appId \in LinkTargets :
                    /\ DOMAIN messages' = DOMAIN messages
                    /\ \A j \in DOMAIN messages :
                          messages'[j] = IF messages[j].id = messages[i].id
                                         THEN LinkedTo(messages[j], appId)
                                         ELSE messages[j]
              /\ applications' = applications
              /\ accounts' = accounts ]_vars
\* one message is linked to an application that is not in the collection,
\* the other is unlinked and unchanged
C16_Witness ==
    /\ messages[1].linkedApplicationId = "no_such_app"
    /\ \A k \in DOMAIN applications : applications[k].id # "no_such_app"
    /\ messages[2].linkedApplicationId = NoLink
    /\ messages[2] = FetchedBatch(accounts[1], <<"b", "a">>)[2]

AppIds == {applications[k].id : k \in DOMAIN applications}
\* C17: every message whose linkedApplicationId is set refers to an
\* application of the application collection.
C17_NoDanglingLink ==
    \A i \in DOMAIN messages :
        messages[i].linkedApplicationId # NoLink =>
            messages[i].linkedApplicationId \in AppIds
\* real mode after a mode switch, a scan and a creation from a message: the
\* stored session's message is linked to the stored application and a
\* scanned message to the application created from it
C17_Witness ==
    /\ ~ isMockMode
    /\ \E i \in DOMAIN messages :
          messages[i].id = "a" /\ messages[i].linkedApplicationId = "app_gen_0"
    /\ \E i \in DOMAIN messages :
          messages[i].id = "b" /\ messages[i].linkedApplicationId = "app_gen_1"
    /\ AppIds = {"app_gen_0", "app_gen_1"}

\* C18: from every status every other status can be set in one update,
\* Rejected and Withdrawn included, and a step that changes the applications
\* changes the status of the applications with one id and nothing else.
C18_StatusOverwrite ==
    [][ /\ \A k \in DOMAIN applications :
              \A newStatus \in ApplicationStatus \ {applications[k].status} :
                  ENABLED (HandleStatusChange
                             /\ applications'[k].status = newStatus)
        /\ applications' # applications =>
              \E k \in DOMAIN applications, newStatus \in ApplicationStatus :
                  /\ DOMAIN applications' = DOMAIN applications
                  /\ \A j \in DOMAIN applications :
                        applications'[j] =
                            IF applications[j].id = applications[k].id
                            THEN [applications[j] EXCEPT !.status = newStatus]
                            ELSE applications[j] ]_vars
\* the rejected application has an offer and the withdrawn one is submitted
\* again
C18_Witness ==
    /\ applications[2].id = "app_1" /\ applications[2].status = "Offer"
    /\ applications[1].id = "app_gen_2"
    /\ applications[1].status = "Application Submitted"

\* C19: the status of every application of the collection is one of the
\* eight values of the enum.
C19_StatusInEnum ==
    \A k \in DOMAIN applications : applications[k].status \in ApplicationStatus
\* with a key configured, an application was created from a message as
\* withdrawn and the status of an initial application was changed
C19_Witness ==
    /\ HasApiKey(xApiKey)
    /\ Len(applications) = Len(INITIAL_APPLICATIONS) + 1
    /\ applications[1].id = "app_gen_1" /\ applications[1].status = "Withdrawn"
    /\ edits = 1
    /\ ~ isCreateModalOpen

OtherAccounts(accs, id) == SelectSeq(accs, LAMBDA acc : acc.id # id)
OtherMessages(msgs, id) == SelectSeq(msgs, LAMBDA msg : msg.accountId # id)
OwnerMissing ==
    /\ ViewerShown
    /\ FindAccount(accounts,
           messages[FindIndex(messages, selectedMessageId)].accountId) = 0

\* C21: a send is issued only by a reply attempt of the user, one per
\* attempt; an attempt on a message whose account is missing issues none and
\* returns false; a send that fails returns false, issues no further send
\* and leaves the draft and the editor as they are.
C21_SendAtMostOnce ==
    [][ /\ sendCalls' # sendCalls =>
              /\ Len(replyAsks') = Len(replyAsks) + 1
              /\ Len(sendCalls') = Len(sendCalls) + 1
        /\ (Len(replyAsks') > Len(replyAsks) /\ OwnerMissing) =>
              /\ sendCalls' = sendCalls
              /\ replyReturned' = Append(replyReturned, Returned(FALSE, "none"))
        /\ Len(replyReturned') > Len(replyReturned) =>
              LET r == replyReturned'[Len(replyReturned')]
              IN  /\ r.result = (r.send = "resolved")
                  /\ ~ r.result =>
                        /\ sendCalls' = sendCalls
                        /\ replyBody' = replyBody
                        /\ isReplyOpen' = isReplyOpen
        /\ Len(sendCalls') <= Len(replyAsks')
      ]_vars

\* a send failed with the draft kept, and an attempt without the owning
\* account was refused
C21_Witness ==
    /\ Len(sendCalls) = 1
    /\ \E i, j \in DOMAIN replyReturned :
          /\ replyReturned[i] = Returned(FALSE, "rejected")
          /\ replyReturned[j] = Returned(FALSE, "none")
    /\ replyBody = "Thanks" /\ isReplyOpen

\* the model call of a classification failed: it rejected, answered without
\* text, or its text is not a JSON document with properties
AnalyzeCallFailed ==
    \/ xOutcome.kind = "rejected"
    \/ xOutcome.kind = "response"
         /\ (~ Truthy(xOutcome.text) \/ xOutcome.json.js \in {"not json", "null"})

\* C22: a finished classification has resolved; without a credential it made
\* no model call and returned the negative result with the reasoning "API
\* Key missing. Cannot analyze.", whatever the subject and text; after a
\* failed model call it returned the negative result with the reasoning
\* "Analysis failed."; its suggestedStatus is always null or one of the eight
\* status values.
C22_ClassificationNegativeOnFailure ==
    (xPc = "done" /\ xOp = "analyze") =>
        /\ xResult.kind = "resolved"
        /\ ~ HasApiKey(xApiKey) =>
              /\ xCalls = <<>>
              /\ xResult.value =
                    [suggestedStatus |-> JsonNull, companyName |-> JsonNull,
                     isRecruitingEmail |-> Bool(FALSE),
                     reasoning |-> Str("API Key missing. Cannot analyze.")]
        /\ (HasApiKey(xApiKey) /\ AnalyzeCallFailed) =>
              xResult.value =
                    [suggestedStatus |-> JsonNull, companyName |-> JsonNull,
                     isRecruitingEmail |-> Bool(FALSE),
                     reasoning |-> Str("Analysis failed.")]
        /\ \/ xResult.value.suggestedStatus = JsonNull
           \/ xResult.value.suggestedStatus \in {Str(st) : st \in ApplicationStatus}

\* a classification whose document suggested a status outside the enum and
\* named a company
C22_Witness ==
    /\ xPc = "done" /\ xOp = "analyze"
    /\ xOutcome.kind = "response" /\ xOutcome.json.js = Obj
    /\ xOutcome.json.suggestedStatus = Str("Interviewing")
    /\ xResult.value.suggestedStatus = JsonNull
    /\ xResult.value.companyName = Str("Initech")

\* C23: the Create Application click on a message calls the extraction with
\* the message's fullBody and subject; when the extraction settles, the
\* draft's company, role, job link, status and next interview date are those
\* of the extraction's result, its notes are empty, its dateApplied is the
\* clock's reading and its recruiter is the message's senderName and
\* senderEmail.
C23_DraftFromExtraction ==
    [][ /\ (parsingMessage = Absent /\ parsingMessage' # Absent) =>
              /\ \E i \in DOMAIN messages : messages[i] = parsingMessage'
              /\ parsingMessage'.id = selectedMessageId'
              /\ xArgs' = [emailText |-> parsingMessage'.fullBody,
                           subject   |-> parsingMessage'.subject]
        /\ (parsingMessage # Absent /\ parsingMessage' = Absent) =>
              /\ xResult'.kind = "resolved"
              /\ draftApplication' =
                    [companyName |-> xResult'.value.companyName,
                     roleTitle   |-> xResult'.value.roleTitle,
                     jobLink     |-> xResult'.value.jobLink,
                     status      |-> xResult'.value.status,
                     nextInterviewDate |-> xResult'.value.nextInterviewDate,
                     dateApplied |-> now',
                     notes       |-> <<>>,
                     recruiter   |-> [name  |-> parsingMessage.senderName,
                                      email |-> parsingMessage.senderEmail]]
      ]_vars

\* the draft of the fetched message, extracted by the model
C23_Witness ==
    /\ parsingMessage = Absent /\ isCreateModalOpen
    /\ draftApplication # Absent
    /\ draftApplication.companyName = "Initech"
    /\ draftApplication.status = "Offer"
    /\ draftApplication.dateApplied = 0
    /\ xArgs = [emailText |-> "Hi there", subject |-> "Interview at Acme Corp"]
    /\ draftApplication.notes = <<>>
    /\ draftApplication.recruiter.email # ""
    /\ selectedMessageId = "a"

\* the call has returned, and it was made without a credential
FallbackReturned ==
    /\ xPc = "done" /\ xOp = "extract" /\ ~ HasApiKey(xApiKey)
    /\ xResult.kind = "resolved"

\* C24 as stated: for every subject made of words, a preposition and a
\* capitalized phrase, the fallback returns the trimmed phrase as companyName
\* and Recruiter Screen as status.
C24_CompanyIsPhrase ==
    FallbackReturned =>
        \A w \in FormWords, prep \in Prepositions, phrase \in FormPhrases :
            xArgs.subject = FormSubject(w, prep, phrase) =>
                /\ xResult.value.companyName = Trim(phrase)
                /\ xResult.value.status = "Recruiter Screen"

\* the phrase is a capital letter followed by letters, digits, white space
\* and periods only
PlainPhrase(phrase) ==
    /\ Len(phrase) >= 2
    /\ IsUpper(CharAt(phrase, 1))
    /\ \A i \in 2..Len(phrase) : IsCompanyChar(CharAt(phrase, i))

\* no at, for or to before position p of the subject (inside a word
\* included) is followed by white space and a capitalized phrase
NoEarlierMatch(subject, p) ==
    \A i \in 1..(p - 1) : CompanyCaptureAt(subject, i) = 0

\* C24 (amended): for every subject made of words, a preposition and a
\* capitalized phrase of letters, digits, white space and periods, in which
\* no earlier at, for or to is followed by white space and a capital letter,
\* the fallback returns the trimmed phrase as companyName and Recruiter
\* Screen as status; for the subject "Interview at Acme Corp" it returns
\* "Acme Corp".
C24_CompanyIsFirstPhrase ==
    FallbackReturned =>
        /\ \A w \in FormWords, prep \in Prepositions, phrase \in FormPhrases :
              ( /\ xArgs.subject = FormSubject(w, prep, phrase)
                /\ PlainPhrase(phrase)
                /\ NoEarlierMatch(xArgs.subject, Len(w) + 2) ) =>
                    /\ xResult.value.companyName = Trim(phrase)
                    /\ xResult.value.status = "Recruiter Screen"
        /\ xArgs.subject = "Interview at Acme Corp" =>
              xResult.value.companyName = "Acme Corp"

\* the fallback has returned the company of a phrase that ends with white
\* space
C24_Witness ==
    /\ FallbackReturned
    /\ xArgs.subject = "Application for Google "
    /\ xResult.value.companyName = "Google"

\* the body holds one of the labels Role:, Position:, Opening: in any letter
\* case
HasRoleLabel(emailText) ==
    \E i \in 1..Len(emailText) : RoleLabelLen(emailText, i) > 0

\* the subject has no company pattern and no separated final segment
NoCompanyPattern(subject) == ~ CompanyMatches(subject) /\ ~ HasSeparator(subject)

\* C25 as stated: a subject without a company pattern and without a
\* separated final segment, with a body without a role label, gives
\* companyName "Unknown Company" and roleTitle "Unknown Role".
C25_UnknownDefaults ==
    ( /\ FallbackReturned
      /\ NoCompanyPattern(xArgs.subject)
      /\ ~ HasRoleLabel(xArgs.emailText) ) =>
        /\ xResult.value.companyName = "Unknown Company"
        /\ xResult.value.roleTitle = "Unknown Role"

\* C25 (amended): a subject without a company pattern, without a separated
\* final segment and without any of the role words Engineer, Developer,
\* Designer, Manager, Product, Analyst, with a body without a role label,
\* gives companyName "Unknown Company" and roleTitle "Unknown Role".
C25_UnknownDefaultsNoRoleWord ==
    ( /\ FallbackReturned
      /\ NoCompanyPattern(xArgs.subject)
      /\ \A r \in CommonRoles : ~ Includes(xArgs.subject, r)
      /\ ~ HasRoleLabel(xArgs.emailText) ) =>
        /\ xResult.value.companyName = "Unknown Company"
        /\ xResult.value.roleTitle = "Unknown Role"

\* the fallback has returned both defaults for a subject and a body that
\* name neither a company nor a role
C25_Witness ==
    /\ FallbackReturned
    /\ xArgs = [emailText |-> "We loved your profile", subject |-> "thanks for applying"]
    /\ xResult.value.companyName = "Unknown Company"
    /\ xResult.value.roleTitle = "Unknown Role"

\* the step in which a scan completes: its timer callback runs
ScanCompletes == scanPc = "timer" /\ scanPc' = "idle"

\* C26: when a scan completes, every account removed since the scan took
\* its snapshot is absent from the accounts, and no stored message has the
\* id of such an account as its accountId.
C26_RemovedStaysRemoved ==
    [][ScanCompletes =>
         \A id \in removedInScan :
             /\ id \notin Ids(accounts')
             /\ \A i \in DOMAIN messages' : messages'[i].accountId # id]_vars

\* the step in which the second of two overlapping invocations merges: the
\* other one merged while this one was in flight
SecondMerge ==
    \/ scanPc = "timer" /\ scanPc' = "idle" /\ firstMerged.by = "B"
    \/ scanB.pc = "timer" /\ scanB'.pc = "idle" /\ firstMerged.by = "A"

\* what the invocation that merges second had fetched
SecondBatch == IF firstMerged.by = "B" THEN newRealMessages ELSE scanB.fresh

SameIds(p, q) == {p[i] : i \in DOMAIN p} = {q[i] : i \in DOMAIN q}

\* C27: when the second of two overlapping invocations that fetched the same
\* ids has merged, each fetched id is stored at most once, and every link a
\* stored message had before that merge is still there.
C27_OverlapKeepsIdsUnique ==
    [][( /\ SecondMerge
         /\ SameIds(IdsOf(SecondBatch), firstMerged.ids) ) =>
          /\ \A i \in DOMAIN SecondBatch :
                Cardinality({j \in DOMAIN messages' :
                                messages'[j].id = SecondBatch[i].id}) <= 1
          /\ \A i \in DOMAIN messages :
                \E j \in DOMAIN messages' :
                    /\ messages'[j].id = messages[i].id
                    /\ messages'[j].linkedApplicationId
                           = messages[i].linkedApplicationId]_vars

\* the same statement for batches that hold no id twice
NoRepeats(p) == \A i, j \in DOMAIN p : p[i] = p[j] => i = j
OverlapKeepsIdsUniqueOnDistinctBatches ==
    [][( /\ SecondMerge
         /\ SameIds(IdsOf(SecondBatch), firstMerged.ids)
         /\ NoRepeats(IdsOf(SecondBatch)) /\ NoRepeats(firstMerged.ids)
         /\ NoRepeats(IdsOf(messages)) ) =>
          /\ NoRepeats(IdsOf(messages'))
          /\ \A i \in DOMAIN messages :
                \E j \in DOMAIN messages' :
                    /\ messages'[j].id = messages[i].id
                    /\ messages'[j].linkedApplicationId
                           = messages[i].linkedApplicationId]_vars

\* both invocations fetched a message and merged, and the message linked
\* between the two merges is stored once, with its link
OverlapLinkedKept ==
    /\ firstMerged = NoMerge /\ scanPc = "idle" /\ scanB.pc = "idle"
    /\ Len(accounts) = 2
    /\ \E i \in DOMAIN messages :
          messages[i].id = "c" /\ messages[i].linkedApplicationId = "app_1"
    /\ NoRepeats(IdsOf(messages))

\* C28: every scan in flight eventually ends with isScanning false, and
\* isEmailScanned becomes true only in the step of the timer callback.
C28_ScanEnds ==
    /\ (scanPc # "idle") ~> (scanPc = "idle" /\ ~ isScanning)
    /\ [][(~ isEmailScanned /\ isEmailScanned') =>
              (scanPc = "timer" /\ scanPc' = "idle")]_vars

\* a scan has ended through the catch block: the fetch rejected, the scan is
\* over, and the mail does not count as scanned
C28_Witness ==
    /\ fPc = "off" /\ fResult.kind = "rejected"
    /\ scanPc = "idle" /\ ~ isScanning /\ ~ isEmailScanned

\* C29: when an analysis completes, every application is what it was right
\* before, edits made during the analysis included, except for the aiSummary
\* and aiSkills of the analysed one.
C29_AnalysisKeepsEdits ==
    [][(jdInFlight # NoAnalysis /\ jdInFlight' = NoAnalysis) =>
          /\ Len(applications') = Len(applications)
          /\ \A k \in DOMAIN applications :
                \E summary \in {applications'[k].aiSummary},
                   skills \in {applications'[k].aiSkills} :
                    applications'[k] = [applications[k] EXCEPT !.aiSummary = summary,
                                                               !.aiSkills = skills]]_vars

\* a stored collection holds an entry with the id of a mock entry
HoldsAny(item, mock) ==
    item.has /\ \E i \in DOMAIN item.v : item.v[i].id \in Ids(mock)
StoreHoldsMock ==
    \/ HoldsAny(store.applications, INITIAL_APPLICATIONS)
    \/ HoldsAny(store.messages, MOCK_MESSAGES)
    \/ HoldsAny(store.accounts, MOCK_ACCOUNTS)

\* C30: the stored real-mode collections never hold mock applications, mock
\* messages or mock accounts, and no step of a switch from mock mode to
\* real mode changes them.
C30_RealStoreOnlyRealData ==
    /\ [](~ StoreHoldsMock)
    /\ [][(~ isMockMode' /\ (effPc # "idle" \/ effPc' # "idle")) =>
              store' = store]_vars

====
